---- MODULE Spec2Model ----
(***************************************************************************)
(* MilkDAWp: the lock-free bounded channel (ThreadSafeSPSCQueue and the    *)
(* textually identical AudioAnalysisQueue), the process-wide preset        *)
(* metadata cache (SharedAssetCache) and the visualization worker's use of *)
(* both.                                                                   *)
(***************************************************************************)
EXTENDS Integers, Sequences, FiniteSets, TLC

(***************************************************************************)
(* Bounds of the model.                                                    *)
(***************************************************************************)
\* log2 of the CapacityPow2 template argument of the modelled channel
CapBits == 2
\* number of counter bits above CapBits: head and tail are size_t counters,
\* modelled with CapBits + WrapBits bits so that they wrap inside a run
WrapBits == 1
\* payload values carried by an item; 0 is the default-constructed T
MaxVal == 2
\* number of tryPush/tryPop calls of the sequential specification
MaxCalls == 13
\* number of tryPush calls started by the single producer of SpecSPSC
MaxHist == 6
\* number of posts started by the posting threads of SpecPosters
MaxPosts == 3

\* file modification times are 1..MaxTs; 0 is what a missing file reports
MaxTs == 1
\* addRef is not called on an entry whose refCount reached MaxRef
MaxRef == 3
\* number of direct addRef calls on one entry since an addRef created it
MaxAdds == 3

\* number of start()/stop() calls, number of calls of the client thread, and
\* the largest numFrames of a posted audio block
MaxLifeCalls == 4
MaxOps == 4
MaxFrames == 2
\* number of postFromAudioToMessage calls
MaxRelay == 5
\* loads one worker completes, and postLoadPreset calls made
MaxLoads == 2
MaxLoadPosts == 3
\* number of processBlock calls
MaxBlocks == 3
\* number of getStateInformation and setStateInformation calls
MaxStateCalls == 3
\* number of passes of the worker's loop that see the clock advanced
MaxAdvances == 3

CapacityPow2 == 2 ^ CapBits
SizeMax == 2 ^ (CapBits + WrapBits)
Vals == 1..MaxVal
Slots == 0..(CapacityPow2 - 1)
\* what a slot holds while the plain (non-atomic) copy into it is in progress
Torn == -1

VARIABLES
    head, tail, buffer,       \* ThreadSafeSPSCQueue members
    accepted, popped,         \* history: values of the tryPush calls that returned
                              \* true, values returned by successful tryPop calls
    lastCall, lastRet,        \* the last completed call and what it returned
    nPush, nPop, pushesFirst, \* numbers of calls made, and whether every tryPush
                              \* call so far preceded every tryPop call
    pPc, pH, pT, pV,          \* per producer thread: position in tryPush, its locals
    cPc, cT, cH, cOut,        \* consumer thread: position in tryPop, its locals
    map,                      \* SharedAssetCache::map, a function on the cached paths
    files,                    \* modification time of the file at each path, 0: no file
    cacheOp, lastGet,         \* the last cache call made directly, and what it
                              \* returned if it was a getPresetMeta
    origin, adds, rels,       \* per path: how its entry came about, and the addRef
                              \* and release calls since an addRef created it
    wPc, pendingPath, wHit, wMeta,        \* per worker: position in
                              \* applyPendingPresetLoads and its locals
    lastAppliedPreset, pmName, pmPalette, \* per worker: lastAppliedPreset,
                              \* pm.currentPresetName, pm.paletteIndex
    cacheHits, cacheMisses,   \* per worker: cacheHits, cacheMisses
    requests,                 \* per worker: paths held by presetLoadRequests
    drained, dedup,           \* per worker, history: the paths its current (or
                              \* last) drain of presetLoadRequests popped, and
                              \* whether that drain ended at the de-dup return
    nLoadPosts,               \* number of postLoadPreset calls made
    manualMode, currentScale, \* AdaptiveQualityController members
    aqOp, aqEval,             \* the last controller call, and the mode, inputs and
                              \* result of the last evaluate
    paletteSeen,              \* per name: the results derivePaletteIndex returned
    running, joinable,        \* VisualizationThread::running, worker.joinable()
    tPc, pmInitialised,       \* position of the worker thread in run() ("none": no
                              \* thread), pm.initialised
    crashed,                  \* std::terminate was called
    callPc, lifeOp, lifeEarly, nLife, \* the thread calling start()/stop(): its
                              \* position, its last call, whether that call
                              \* returned at the failed exchange, number of calls
    iterAfterStop,            \* loop iterations completed since running became false
    latestLock, backBufferLock,   \* holder of each juce::CriticalSection
    aLen, pcLen, plLen,       \* items held by the analysis queue, paramChanges and
                              \* presetLoadRequests
    clOp, clPc, clFrames,     \* the client thread: the call it is in (or made last),
                              \* its position, frames left to copy
    clSteps, clRet, nOps,     \* steps it took in that call, what the call
                              \* returned, number of its calls
    live, nApplied,           \* the worker's render parameters (pm) by paramID, and
                              \* how many popped changes its drain loop has applied
    brQueue, nextSeq,         \* MessageThreadBridge: items held by audioToMessage,
                              \* nextSeq
    brListeners,              \* the listeners that are set
    brPc, brItem,             \* position of the message thread in
                              \* drainOnMessageThread, its local pc
    brAccepted, brPopped, brDelivered, \* history: changes whose post returned true,
                              \* changes popped, changes each listener was called with
    fftWritePos, runningSamplePos, \* MilkDAWpAudioProcessor analysis state
    energyHistory, energyIndex,
    energyAverage,            \* energyAverage times energyHistorySize
    beatCooldown,
    aQueue,                   \* the snapshots held by analysisQueue, oldest first
    produced,                 \* history: per window since prepareToPlay, the
                              \* snapshot handed to tryPush, whether it was
                              \* accepted, and the average and cooldown the
                              \* producer then held
    nBlocks,                  \* number of processBlock calls made
    dPc,                      \* the worker thread in run(): position in its loop
    latest, haveLatest,       \* locals of run()
    latestSnapshot, latestHave, framesConsumed, \* VisualizationThread members
    snapPopped,               \* history: the snapshots the worker popped
    renderedWith,             \* history: the snapshots renderFrame was called with
    latestGet,                \* what the last getLatestAnalysisSnapshot call
                              \* returned, its out argument, whether the worker
                              \* had then finished the drain of its pass, and how
                              \* many snapshots it had popped
    nowMs,                    \* the worker's last reading of the clock, in ticks
    nextFrameTimeMs, frameDurMs, \* locals of run(), in ticks
    vizTargetFps, framesRendered, \* VisualizationThread members
    didRender,                \* the last pass through the frame section rendered
    nAdvances,                \* number of passes in which the clock had advanced
    aqTargetFps, aqCpuHigh, aqCpuRelax, \* AdaptiveQualityController::targetFps,
                              \* cpuHigh and cpuRelax
    currentPresetPath, currentPlaylistFolderPath, \* MilkDAWpAudioProcessor members
    playlistFiles, playlistOrder, playlistPos,
    params,                   \* the apvts parameters shuffle, lockCurrentPreset
                              \* and presetIndex
    timerRunning,             \* the auto-advance timer is running
    presetPosts,              \* history: the paths posted to the worker
    disk,                     \* the playlist folder on disk
    saved,                    \* what the last getStateInformation call wrote, and
                              \* the state restored by the call before it, if any
    stateOp, restored,        \* the last of the two calls, and the state the
                              \* last setStateInformation call was given
    nStateCalls,              \* number of calls made
    surface, backBuffer,      \* VisualizationThread::surface, and the width and
                              \* height of backBuffer (0 by 0: not valid)
    currentResolutionScale,   \* VisualizationThread member, in hundredths
    nextMetricsLogMs,         \* VisualizationThread member, in ticks
    drawnInto,                \* history: the size of the buffer the last frame
                              \* since the last evaluation was drawn into
    resizedFor,               \* history: the scale returned by the last evaluation
                              \* if it differed from the one before by more than
                              \* 0.01 and the surface is the same since, else 0
    pcmData, writePosFrames,  \* PcmRing::data (two floats per frame) and
                              \* writePosFrames
    pcmSampleRate, lastPcmWriteMs, \* VisualizationThread members
    pcmPosted,                \* history: the samples posted, in posting order
    wAccess, cAccess,         \* the section of run() the worker is inside, and the
                              \* call another thread is inside ("none": neither)
    aHead, aTail,             \* AudioAnalysisQueue::head and tail of analysisQueue
    aSlots,                   \* per slot of its buffer: the ordinal of the
                              \* accepted push that wrote it last, 0 if none did
    kPc, kT, kH,              \* the worker in tryPop: position, locals t and h
    gPc, gH, nClears,         \* the host thread in clear() or tryPush: position,
                              \* the head it loaded; number of clear() calls made
    aPopped,                  \* history: the ordinals of the snapshots popped
    twPc, twTemp, twJoin,     \* per thread calling start()/stop(): its position,
                              \* the std::thread temporary it constructed, the
                              \* thread it is joining
    workerId,                 \* the thread VisualizationThread::worker refers to
                              \* (0: none; joinable = (workerId # 0))
    runPc,                    \* per thread created: "none", inside the loop of
                              \* run() ("loop"), or returned from run() ("done")
    nThreads, nTwo,           \* threads created, start()/stop() calls made
    stopAsked,                \* history: the threads alive when a stop() exchange
                              \* succeeded
    palHash,                  \* the hashCode() of the name both palette rules were
                              \* last applied to
    palCache, palViz,         \* what derivePaletteIndex returned for it, and what
                              \* loadPreset stored in paletteIndex
    palCalled,                \* whether they were applied at all
    pcmGet                    \* the last getLatestPcmWindow call: its argument,
                              \* what it returned, and the number of frames
                              \* posted before it

qvars == <<head, tail, buffer, accepted, popped>>
callvars == <<lastCall, lastRet, nPush, nPop, pushesFirst>>
prodvars == <<pPc, pH, pT, pV>>
consvars == <<cPc, cT, cH, cOut>>
cachevars == <<map, files, cacheOp, lastGet, origin, adds, rels>>
workervars == <<wPc, pendingPath, wHit, wMeta, lastAppliedPreset, pmName, pmPalette,
                cacheHits, cacheMisses>>
loadvars == <<requests, drained, dedup, nLoadPosts>>
producervars == <<fftWritePos, runningSamplePos, energyHistory, energyIndex,
                  energyAverage, beatCooldown, produced, nBlocks>>
drainvars == <<dPc, latest, haveLatest, latestSnapshot, latestHave, framesConsumed,
               snapPopped, renderedWith, latestGet>>
framevars == <<nowMs, nextFrameTimeMs, frameDurMs, vizTargetFps, framesRendered,
               didRender, nAdvances>>
anaside == <<producervars, aQueue, drainvars, framevars>>
stateside == <<currentPresetPath, currentPlaylistFolderPath, playlistFiles, playlistOrder,
               playlistPos, params, timerRunning, presetPosts, disk, saved, stateOp,
               restored, nStateCalls>>
sizevars == <<surface, backBuffer, currentResolutionScale, nextMetricsLogMs, drawnInto,
              resizedFor>>
pcmvars == <<pcmData, writePosFrames, pcmSampleRate, lastPcmWriteMs, pcmPosted, pcmGet>>
accvars == <<wAccess, cAccess>>
clearvars == <<aHead, aTail, aSlots, kPc, kT, kH, gPc, gH, nClears, aPopped>>
twovars == <<twPc, twTemp, twJoin, workerId, runPc, nThreads, nTwo, stopAsked>>
hashvars == <<palHash, palCache, palViz, palCalled>>
latevars == <<twovars, hashvars>>
extrest == <<pcmvars, accvars, clearvars, latevars>>
extside == <<sizevars, extrest>>
restside == <<anaside, stateside, extside>>
queueside == <<qvars, callvars, prodvars, consvars, restside>>
cacheside == <<cachevars, workervars, loadvars>>
aqvars == <<manualMode, currentScale, aqOp, aqEval, aqTargetFps, aqCpuHigh, aqCpuRelax>>
lifevars == <<running, joinable, tPc, pmInitialised, crashed, callPc, lifeOp,
              lifeEarly, nLife, iterAfterStop>>
lockvars == <<latestLock, backBufferLock>>
chanvars == <<aLen, pcLen, plLen>>
clientvars == <<clOp, clPc, clFrames, clSteps, clRet, nOps>>
threadside == <<lifevars, lockvars, chanvars, clientvars>>
paramvars == <<live, nApplied>>
bridgevars == <<brQueue, nextSeq, brListeners, brPc, brItem, brAccepted, brPopped,
                brDelivered>>
relayside == <<paramvars, bridgevars>>
ctlside == <<aqvars, paletteSeen, threadside, relayside>>
vars == <<queueside, cacheside, ctlside>>

(***************************************************************************)
(* ThreadSafeSPSCQueue / AudioAnalysisQueue: pure parts.                   *)
(***************************************************************************)
\* x & mask, mask = CapacityPow2 - 1
Mask(x) == x % CapacityPow2

\* variant of x + 1 whose range is not a multiple of the capacity
IncShortRange(x) == (x + 1) % (SizeMax - 1)
\* size_t arithmetic: x + 1 and x - y wrap modulo the counter range
Inc(x) == (x + 1) % SizeMax
Sub(x, y) == (x - y + SizeMax) % SizeMax

\* variants of the full test: no test at all; full only when every slot is used
IsFullNever(h, t) == FALSE
IsFullAllSlots(h, t) == h # t /\ Mask(h) = Mask(t)
\* the full test of tryPush
IsFull(h, t) == Mask(h + 1) = Mask(t)

\* the number of items a channel can hold: one slot always stays free
Usable == CapacityPow2 - 1

\* the empty test of tryPop
IsEmpty(t, h) == Mask(t) = Mask(h)

\* variant of getNumAvailable with the operands exchanged
NumAvailableSwapped(h, t) == Mask(Sub(t, h))
\* getNumAvailable() evaluated on the values of head and tail
NumAvailable(h, t) == Mask(Sub(h, t))

getNumAvailable == NumAvailable(head, tail)

\* the items the channel holds, oldest first: slots tail .. head-1
RECURSIVE SlotsFrom(_, _)
SlotsFrom(t, n) ==
    IF n = 0 THEN <<>> ELSE <<buffer[Mask(t)]>> \o SlotsFrom(Inc(t), n - 1)
Contents == SlotsFrom(tail, getNumAvailable)

\* s is a prefix of t
IsPrefix(s, t) == Len(s) <= Len(t) /\ SubSeq(t, 1, Len(s)) = s

Min(a, b) == IF a < b THEN a ELSE b

(***************************************************************************)
(* Sequential calls: each call runs to completion before the next starts.  *)
(***************************************************************************)
QueueInit ==
    /\ head = 0
    /\ tail = 0
    /\ buffer = [i \in Slots |-> 0]
    /\ accepted = <<>>
    /\ popped = <<>>

\* nobody has called or is inside a call
CallSideInit(threads) ==
    /\ lastCall = "none"
    /\ lastRet = FALSE
    /\ nPush = 0
    /\ nPop = 0
    /\ pushesFirst = TRUE
    /\ pPc = [th \in threads |-> "idle"]
    /\ pH = [th \in threads |-> 0]
    /\ pT = [th \in threads |-> 0]
    /\ pV = [th \in threads |-> 0]
    /\ cPc = "idle"
    /\ cT = 0
    /\ cH = 0
    /\ cOut = 0

QueueSideInit(threads) == QueueInit /\ CallSideInit(threads)

(***************************************************************************)
(* MilkDAWpAudioProcessor: the analysis producer, and the analysis channel *)
(* as the worker sees it.  Energies are in hundredths; energyAverage is    *)
(* held times energyHistorySize, so that the add-new/subtract-oldest       *)
(* update is exact.                                                        *)
(***************************************************************************)
fftSize == 1024
energyHistorySize == 43

\* a default-constructed AudioAnalysisSnapshot
DefaultSnapshot == [samplePosition |-> 0, shortTimeEnergy |-> 0]

\* nothing returned yet by getLatestAnalysisSnapshot
NoLatestGet ==
    [called |-> FALSE, ret |-> FALSE, out |-> DefaultSnapshot, drained |-> FALSE,
     nPopped |-> 0]

\* the clock is counted in ticks of a sixth of a millisecond, so that the
\* frame periods of the rates used here are whole numbers
TicksPerMs == 6
\* std::atomic<double> targetFps{ 60.0 } of VisualizationThread
DefaultTargetFps == 60
\* const double frameDurMs = 1000.0 / fps;
FrameDur(fps) == (1000 * TicksPerMs) \div fps

\* the processor after construction and prepareToPlay, the worker at the head
\* of its loop
AnaSideInit ==
    /\ fftWritePos = 0
    /\ runningSamplePos = 0
    /\ energyHistory = [i \in 0..(energyHistorySize - 1) |-> 0]
    /\ energyIndex = 0
    /\ energyAverage = 0
    /\ beatCooldown = 0
    /\ aQueue = <<>>
    /\ produced = <<>>
    /\ nBlocks = 0
    /\ dPc = "tryPop"
    /\ latest = DefaultSnapshot
    /\ haveLatest = FALSE
    /\ latestSnapshot = DefaultSnapshot
    /\ latestHave = FALSE
    /\ framesConsumed = 0
    /\ snapPopped = <<>>
    /\ renderedWith = <<>>
    /\ latestGet = NoLatestGet
    /\ nowMs = 0
    /\ nextFrameTimeMs = 0
    /\ frameDurMs = 0
    /\ vizTargetFps = DefaultTargetFps
    /\ framesRendered = 0
    /\ didRender = FALSE
    /\ nAdvances = 0

\* struct RenderSurface as constructed, which is also what run() sets before
\* its loop; a default-constructed juce::Image is not valid
DefaultSurface == [width |-> 1280, height |-> 720]
NoImage == [width |-> 0, height |-> 0]
\* metricsLogIntervalMs
metricsLogIntervalMs == 2000

\* the worker's surface, buffer and metrics schedule at the head of its loop
SizeInit ==
    /\ surface = DefaultSurface
    /\ backBuffer = NoImage
    /\ currentResolutionScale = 100
    /\ nextMetricsLogMs = metricsLogIntervalMs * TicksPerMs
    /\ drawnInto = NoImage
    /\ resizedFor = 0

\* frames the ring holds (48000 in the program), and the window
\* getLatestPcmWindow takes for a request of no frames (2048 in the program)
PcmCapacity == 4
DefaultWindow == 2
\* frames posted in all
MaxPcmFrames == 6
\* pcmSampleRate as constructed
DefaultSampleRate == 44100

NoPcmGet == [called |-> FALSE, desiredFrames |-> 0, out |-> <<>>, ret |-> FALSE,
             outSampleRate |-> 0, posted |-> 0]

\* pcmRing.init(48000) in the constructor
PcmInit ==
    /\ pcmData = [i \in 0..(2 * PcmCapacity - 1) |-> 0]
    /\ writePosFrames = 0
    /\ pcmSampleRate = DefaultSampleRate
    /\ lastPcmWriteMs = 0
    /\ pcmPosted = <<>>
    /\ pcmGet = NoPcmGet

\* analysisQueue as constructed, the worker and the host thread outside
\* its calls
ClearInit ==
    /\ aHead = 0
    /\ aTail = 0
    /\ aSlots = [i \in Slots |-> 0]
    /\ kPc = "idle"
    /\ kT = 0
    /\ kH = 0
    /\ gPc = "idle"
    /\ gH = 0
    /\ nClears = 0
    /\ aPopped = <<>>

\* the threads that call start() and stop(): the host's (prepareToPlay,
\* releaseResources) and the editor's (ensureVizThreadStartedForUI)
Callers == {"host", "ui"}
MaxTwoCalls == 4
ThreadIds == 1..MaxTwoCalls

\* no call in progress, worker default-constructed, no thread created
TwoInit ==
    /\ twPc = [c \in Callers |-> "idle"]
    /\ twTemp = [c \in Callers |-> 0]
    /\ twJoin = [c \in Callers |-> 0]
    /\ workerId = 0
    /\ runPc = [i \in ThreadIds |-> "none"]
    /\ nThreads = 0
    /\ nTwo = 0
    /\ stopAsked = {}

\* no name hashed yet
HashInit ==
    /\ palHash = 0
    /\ palCache = 0
    /\ palViz = 0
    /\ palCalled = FALSE

ExtSideInit ==
    SizeInit /\ PcmInit /\ ClearInit /\ TwoInit /\ HashInit /\ wAccess = "none" /\ cAccess = "none"

(***************************************************************************)
(* SharedAssetCache: the map and its four operations.  A path is a number, *)
(* a name is a sequence of character codes.                                *)
(***************************************************************************)
\* two preset paths, both ending in .milk (the operations on one path do not
\* depend on the entries of other paths), and the empty juce::String
Paths == {1, 2}
MilkPaths == {1, 2}
\* a path that does not end in .milk, and every path there is
TextPath == 3
AllPaths == Paths \cup {TextPath}
NoPath == 0
FileTimes == 0..MaxTs
\* two VisualizationThread instances of one process share the cache
Workers == {1, 2}

\* juce::File(path).getFileNameWithoutExtension(): path p is the file named
\* by the p-th lower-case letter
FileNameWithoutExtension(p) == <<96 + p>>
\* juce::File(path).getFileExtension().toLowerCase()
FileExtension(p) == IF p \in MilkPaths THEN ".milk" ELSE ".txt"
\* juce::File(path).getLastModificationTime()
LastModificationTime(fs, p) == fs[p]
\* juce::File(path).existsAsFile()
ExistsAsFile(fs, p) == fs[p] > 0

\* juce::String::hashCode(): result = 31 * result + c over the characters
\* (the names of this model are too short for the 32-bit wrap to occur)
RECURSIVE hashCode(_)
hashCode(str) ==
    IF str = <<>> THEN 0
    ELSE 31 * hashCode(SubSeq(str, 1, Len(str) - 1)) + str[Len(str)]

Abs(x) == IF x < 0 THEN -x ELSE x

\* the name a caller of upsertPresetMeta passes in its PresetMeta
UpsertNames == {<<117>>}
\* the names derivePaletteIndex is called with: the empty juce::String and the
\* file names of the paths
PresetNames == {<<>>} \cup {FileNameWithoutExtension(p) : p \in Paths}

palettes == 5

\* variant that also reads the cache: the index moves with the number of entries
derivePaletteIndexByEntries(presetName) ==
    (hashCode(presetName) + Cardinality(DOMAIN map)) % palettes
\* static int derivePaletteIndex(const juce::String& presetName)
derivePaletteIndex(presetName) ==
    LET hash == hashCode(presetName)
    IN IF hash = hashCode(<<>>) THEN 0 ELSE Abs(hash) % palettes

\* a default-constructed PresetMeta
DefaultMeta == [name |-> <<>>, paletteIndex |-> 0, lastModified |-> 0, refCount |-> 0]

\* a miss: getPresetMeta returned false and left the caller's
\* default-constructed PresetMeta as it was
NoGet == [hit |-> FALSE, out |-> DefaultMeta]

\* juce::HashMap::set and ::remove
MapSet(m, p, e) == [q \in (DOMAIN m) \cup {p} |-> IF q = p THEN e ELSE m[q]]
MapRemove(m, p) == [q \in (DOMAIN m) \ {p} |-> m[q]]

\* the map after upsertPresetMeta(p, meta)
MapAfterUpsert(m, p, meta) == MapSet(m, p, meta)

\* the map after addRef(p), the files being fs
MapAfterAddRef(m, fs, p) ==
    IF p \notin DOMAIN m
    THEN MapSet(m, p, [name |-> FileNameWithoutExtension(p),
                       lastModified |-> LastModificationTime(fs, p),
                       paletteIndex |-> derivePaletteIndex(FileNameWithoutExtension(p)),
                       refCount |-> 1])
    ELSE MapSet(m, p, [m[p] EXCEPT !.refCount = @ + 1])

\* variant of the eviction test: evict only below zero
EvictBelowZero(rc) == rc < 0
\* the eviction test of release
Evict(rc) == rc <= 0

\* the map after release(p)
MapAfterRelease(m, p) ==
    IF p \in DOMAIN m
    THEN LET rc == m[p].refCount - 1
         IN IF Evict(rc) THEN MapRemove(m, p)
            ELSE MapSet(m, p, [m[p] EXCEPT !.refCount = rc])
    ELSE m

\* refCount of p as a holder count: 0 when p has no entry
RefCountOf(p) == IF p \in DOMAIN map THEN map[p].refCount ELSE 0

CacheSideInit ==
    /\ map = [q \in {} |-> DefaultMeta]
    /\ files = [p \in AllPaths |-> 1]
    /\ cacheOp = [op |-> "none", path |-> NoPath]
    /\ lastGet = NoGet
    /\ origin = [p \in AllPaths |-> "absent"]
    /\ adds = [p \in AllPaths |-> 0]
    /\ rels = [p \in AllPaths |-> 0]
    /\ wPc = [w \in Workers |-> "idle"]
    /\ pendingPath = [w \in Workers |-> NoPath]
    /\ wHit = [w \in Workers |-> FALSE]
    /\ wMeta = [w \in Workers |-> DefaultMeta]
    /\ lastAppliedPreset = [w \in Workers |-> NoPath]
    /\ pmName = [w \in Workers |-> <<>>]
    /\ pmPalette = [w \in Workers |-> 0]
    /\ cacheHits = [w \in Workers |-> 0]
    /\ cacheMisses = [w \in Workers |-> 0]
    /\ requests = [w \in Workers |-> <<>>]
    /\ drained = [w \in Workers |-> <<>>]
    /\ dedup = [w \in Workers |-> FALSE]
    /\ nLoadPosts = 0

(***************************************************************************)
(* MilkDAWpAudioProcessor: the preset path, the playlist and the state     *)
(* saved and restored through the host.  A folder path is a string, the    *)
(* files of a folder are preset paths.                                     *)
(***************************************************************************)
NoFolder == ""
FolderPaths == {NoFolder, "D:/MilkPlaylists/Show1"}

\* what the folder path names on disk: whether it is a directory, the .milk
\* files in it, and the files its ignore lists name
DiskStates == [isDirectory : BOOLEAN, milk : SUBSET Paths, ignored : SUBSET Paths]

\* the values of the parameters carried in the state
ParamStates == [shuffle : BOOLEAN, lockCurrentPreset : BOOLEAN, presetIndex : {0}]

\* the states a host can hand to setStateInformation
SavedStates ==
    [presetPath : Paths \cup {NoPath}, playlistFolderPath : FolderPaths,
     params : ParamStates]

NoState == [presetPath |-> NoPath, playlistFolderPath |-> "none", params |-> <<>>]

\* a processor as constructed, the folder being an empty directory
StateSideInit ==
    /\ currentPresetPath = NoPath
    /\ currentPlaylistFolderPath = NoFolder
    /\ playlistFiles = <<>>
    /\ playlistOrder = <<>>
    /\ playlistPos = -1
    /\ params = [shuffle |-> FALSE, lockCurrentPreset |-> FALSE, presetIndex |-> 0]
    /\ timerRunning = FALSE
    /\ presetPosts = <<>>
    /\ disk = [isDirectory |-> TRUE, milk |-> {}, ignored |-> {}]
    /\ saved = [presetPath |-> NoPath, playlistFolderPath |-> NoFolder,
                restoredFrom |-> NoState]
    /\ stateOp = "none"
    /\ restored = NoState
    /\ nStateCalls = 0

(***************************************************************************)
(* AdaptiveQualityController: modes, scales and thresholds.  A resolution  *)
(* scale is written in hundredths (0.5 is 50, 0.1 is 10), so that the      *)
(* steps of 0.1 are exact; fps and cpu percent are whole numbers.          *)
(***************************************************************************)
\* enum class QualityMode
Auto == 0
Low == 1
Medium == 2
High == 3

\* the fixed scales of the manual modes, the step and the limits of Auto
ScaleLow == 50
ScaleMedium == 75
ScaleHigh == 100
ScaleStep == 10
ScaleFloor == 50
ScaleCeil == 100

\* the initial values of the atomics; setFpsThresholds is not called
targetFps == 60
fpsLow == 45
fpsHigh == 58
cpuHigh == 80
cpuRelax == 50

\* the parameters a posted change may name, and their values in a
\* ProjectMContext as constructed
ParamIds == {"beatSensitivity", "presetIndex"}
ParamDefault(id) == IF id = "beatSensitivity" THEN 1 ELSE 0

\* no evaluate call was made yet
NoEval ==
    [mode |-> Auto, before |-> ScaleHigh, suggestedScale |-> ScaleHigh, fpsEma |-> 0,
     cpuPct |-> 0]

CtlSideInit ==
    /\ manualMode = Auto
    /\ currentScale = ScaleHigh
    /\ aqOp = "none"
    /\ aqEval = NoEval
    /\ aqTargetFps = targetFps
    /\ aqCpuHigh = cpuHigh
    /\ aqCpuRelax = cpuRelax
    /\ paletteSeen = [n \in PresetNames |-> {}]
    /\ running = FALSE
    /\ joinable = FALSE
    /\ tPc = "none"
    /\ pmInitialised = FALSE
    /\ crashed = FALSE
    /\ callPc = "idle"
    /\ lifeOp = "none"
    /\ lifeEarly = FALSE
    /\ nLife = 0
    /\ iterAfterStop = 0
    /\ latestLock = "free"
    /\ backBufferLock = "free"
    /\ aLen = 0
    /\ pcLen = 0
    /\ plLen = 0
    /\ clOp = "none"
    /\ clPc = "idle"
    /\ clFrames = 0
    /\ clSteps = 0
    /\ clRet = FALSE
    /\ nOps = 0
    /\ live = [id \in ParamIds |-> ParamDefault(id)]
    /\ nApplied = 0
    /\ brQueue = <<>>
    /\ nextSeq = 0
    /\ brListeners = {}
    /\ brPc = "idle"
    /\ brItem = [paramID |-> "", value |-> 0, sequence |-> 0]
    /\ brAccepted = <<>>
    /\ brPopped = <<>>
    /\ brDelivered = [l \in {"message", "viz"} |-> <<>>]

\* a channel with one producer thread and one consumer thread, an empty cache,
\* idle workers and a controller as constructed
Init ==
    QueueSideInit({"audio"}) /\ AnaSideInit /\ StateSideInit /\ ExtSideInit /\ CacheSideInit
    /\ CtlSideInit

tryPush(v) ==
    /\ nPush + nPop < MaxCalls
    /\ LET h == head
           t == tail
       IN IF IsFull(h, t)
          THEN /\ lastRet' = FALSE
               /\ UNCHANGED qvars
          ELSE /\ buffer' = [buffer EXCEPT ![Mask(h)] = v]
               /\ head' = Inc(h)
               /\ accepted' = Append(accepted, v)
               /\ lastRet' = TRUE
               /\ UNCHANGED <<tail, popped>>
    /\ lastCall' = "tryPush"
    /\ nPush' = nPush + 1
    /\ pushesFirst' = (pushesFirst /\ nPop = 0)
    /\ UNCHANGED <<nPop, prodvars, consvars, restside, cacheside, ctlside>>

tryPop ==
    /\ nPush + nPop < MaxCalls
    /\ LET t == tail
           h == head
       IN IF IsEmpty(t, h)
          THEN /\ lastRet' = FALSE
               /\ UNCHANGED qvars
          ELSE /\ popped' = Append(popped, buffer[Mask(t)])
               /\ tail' = Inc(t)
               /\ lastRet' = TRUE
               /\ UNCHANGED <<head, buffer, accepted>>
    /\ lastCall' = "tryPop"
    /\ nPop' = nPop + 1
    /\ UNCHANGED <<nPush, pushesFirst, prodvars, consvars, restside, cacheside, ctlside>>

Next ==
    \/ \E v \in Vals : tryPush(v)
    \/ tryPop

Spec == Init /\ [][Next]_vars

\* the counter value an emptied channel is taken up at: two items before
\* the counters wrap (Spec takes it up as constructed)
WrapStarts == {SizeMax - 2}

\* the channel after k items went through it (the slots keep what was
\* written last; the histories start here)
InitWrap ==
    /\ \E k \in WrapStarts :
           /\ head = k
           /\ tail = k
           /\ buffer = [i \in Slots |-> 1]
    /\ accepted = <<>>
    /\ popped = <<>>
    /\ CallSideInit({"audio"})
    /\ AnaSideInit /\ StateSideInit /\ ExtSideInit /\ CacheSideInit /\ CtlSideInit

SpecWrap == InitWrap /\ [][Next]_vars

\* AudioAnalysisQueueTests::runTest on a channel of CapacityPow2 slots: three
\* pushes, two pops, a push that fills "to capacity", one push more, then
\* pops until one returns false
TestCalls == <<"tryPush", "tryPush", "tryPush", "tryPop", "tryPop", "tryPush", "tryPush">>
TestDraining == nPush + nPop >= Len(TestCalls)
TestDrained == TestDraining /\ lastCall = "tryPop" /\ lastRet = FALSE
TestNextIs(call) == ~TestDraining /\ TestCalls[nPush + nPop + 1] = call

TestPush(v) == TestNextIs("tryPush") /\ tryPush(v)
TestPop == TestNextIs("tryPop") /\ tryPop
TestDrainPop == TestDraining /\ ~TestDrained /\ tryPop

NextTest ==
    \/ \E v \in Vals : TestPush(v)
    \/ TestPop
    \/ TestDrainPop

SpecTest == Init /\ [][NextTest]_vars

(***************************************************************************)
(* Concurrent calls: every thread in DOMAIN pPc runs tryPush and one       *)
(* thread runs tryPop, interleaved at the individual loads and stores of   *)
(* head, tail and the buffer slot.  The copy into and out of a slot is not *)
(* atomic: it has a begin and an end step.                                 *)
(***************************************************************************)
Producers == DOMAIN pPc

CallBound == IF Cardinality(Producers) = 1 THEN MaxHist ELSE MaxPosts

\* a thread enters tryPush(v)
PushCall(th, v) ==
    /\ pPc[th] = "idle"
    /\ nPush < CallBound
    /\ nPush' = nPush + 1
    /\ pV' = [pV EXCEPT ![th] = v]
    /\ pPc' = [pPc EXCEPT ![th] = "loadHead"]
    /\ UNCHANGED <<qvars, lastCall, lastRet, nPop, pushesFirst, pH, pT, consvars, restside, cacheside, ctlside>>

\* h = head.load(relaxed)
PushLoadHead(th) ==
    /\ pPc[th] = "loadHead"
    /\ pH' = [pH EXCEPT ![th] = head]
    /\ pPc' = [pPc EXCEPT ![th] = "loadTail"]
    /\ UNCHANGED <<qvars, callvars, pT, pV, consvars, restside, cacheside, ctlside>>

\* t = tail.load(acquire); if full return false
PushLoadTail(th) ==
    /\ pPc[th] = "loadTail"
    /\ pT' = [pT EXCEPT ![th] = tail]
    /\ pPc' = [pPc EXCEPT ![th] =
                  IF IsFull(pH[th], tail) THEN "idle" ELSE "writeSlot"]
    /\ UNCHANGED <<qvars, callvars, pH, pV, consvars, restside, cacheside, ctlside>>

\* buffer[h & mask] = v, begin of the copy
PushWriteBegin(th) ==
    /\ pPc[th] = "writeSlot"
    /\ buffer' = [buffer EXCEPT ![Mask(pH[th])] = Torn]
    /\ pPc' = [pPc EXCEPT ![th] = "writing"]
    /\ UNCHANGED <<head, tail, accepted, popped, callvars, pH, pT, pV, consvars, restside, cacheside, ctlside>>

\* buffer[h & mask] = v, end of the copy
PushWriteEnd(th) ==
    /\ pPc[th] = "writing"
    /\ buffer' = [buffer EXCEPT ![Mask(pH[th])] = pV[th]]
    /\ pPc' = [pPc EXCEPT ![th] = "storeHead"]
    /\ UNCHANGED <<head, tail, accepted, popped, callvars, pH, pT, pV, consvars, restside, cacheside, ctlside>>

\* head.store(h + 1, release); return true
PushStoreHead(th) ==
    /\ pPc[th] = "storeHead"
    /\ head' = Inc(pH[th])
    /\ accepted' = Append(accepted, pV[th])
    /\ pPc' = [pPc EXCEPT ![th] = "idle"]
    /\ UNCHANGED <<tail, buffer, popped, callvars, pH, pT, pV, consvars, restside, cacheside, ctlside>>

\* the consumer enters tryPop(out)
PopCall ==
    /\ cPc = "idle"
    /\ cPc' = "loadTail"
    /\ UNCHANGED <<qvars, callvars, prodvars, cT, cH, cOut, restside, cacheside, ctlside>>

\* t = tail.load(relaxed)
PopLoadTail ==
    /\ cPc = "loadTail"
    /\ cT' = tail
    /\ cPc' = "loadHead"
    /\ UNCHANGED <<qvars, callvars, prodvars, cH, cOut, restside, cacheside, ctlside>>

\* h = head.load(acquire); if empty return false
PopLoadHead ==
    /\ cPc = "loadHead"
    /\ cH' = head
    /\ cPc' = IF IsEmpty(cT, head) THEN "idle" ELSE "readSlot"
    /\ UNCHANGED <<qvars, callvars, prodvars, cT, cOut, restside, cacheside, ctlside>>

\* out = buffer[t & mask], begin of the copy
PopReadBegin ==
    /\ cPc = "readSlot"
    /\ cOut' = buffer[Mask(cT)]
    /\ cPc' = "reading"
    /\ UNCHANGED <<qvars, callvars, prodvars, cT, cH, restside, cacheside, ctlside>>

\* out = buffer[t & mask], end of the copy: a slot that changed meanwhile
\* gives a torn value
PopReadEnd ==
    /\ cPc = "reading"
    /\ cOut' = IF buffer[Mask(cT)] = cOut THEN cOut ELSE Torn
    /\ cPc' = "storeTail"
    /\ UNCHANGED <<qvars, callvars, prodvars, cT, cH, restside, cacheside, ctlside>>

\* tail.store(t + 1, release); return true
PopStoreTail ==
    /\ cPc = "storeTail"
    /\ tail' = Inc(cT)
    /\ popped' = Append(popped, cOut)
    /\ cPc' = "idle"
    /\ UNCHANGED <<head, buffer, accepted, callvars, prodvars, cT, cH, cOut, restside, cacheside, ctlside>>

NextThreads ==
    \/ \E th \in Producers, v \in Vals : PushCall(th, v)
    \/ \E th \in Producers : PushLoadHead(th)
    \/ \E th \in Producers : PushLoadTail(th)
    \/ \E th \in Producers : PushWriteBegin(th)
    \/ \E th \in Producers : PushWriteEnd(th)
    \/ \E th \in Producers : PushStoreHead(th)
    \/ PopCall
    \/ PopLoadTail
    \/ PopLoadHead
    \/ PopReadBegin
    \/ PopReadEnd
    \/ PopStoreTail

\* one producer thread (the audio callback) and one consumer thread
SpecSPSC == Init /\ [][NextThreads]_vars

\* VisualizationThread::paramChanges with its two posting threads: the audio
\* thread (parameterChanged) and the message thread (sendAllParamsToViz);
\* the worker thread pops in applyPendingParameterChanges
InitPosters ==
    /\ QueueSideInit({"audio", "message"}) /\ AnaSideInit /\ StateSideInit /\ ExtSideInit
    /\ CacheSideInit /\ CtlSideInit
SpecPosters == InitPosters /\ [][NextThreads]_vars

Quiescent == cPc = "idle" /\ \A th \in Producers : pPc[th] = "idle"

(***************************************************************************)
(* MilkDAWpAudioProcessor::processBlock and produceAnalysisSnapshot.  The  *)
(* samples of a window enter only through its short-time energy, which is  *)
(* an input of the step.  analysisQueue has one producer (the audio        *)
(* callback) and one consumer (the worker), so a tryPush and a tryPop act  *)
(* on it as on a sequence.                                                 *)
(***************************************************************************)
\* buffer.getNumSamples() of a processBlock call
BlockSizes == {512, 1024, 2048}
\* short-time energies of a window, in hundredths
EnergyInputs == {1, 2, 50}

\* the processor's analysis state as one record, for the windows of one block
Analysis ==
    [energyHistory |-> energyHistory, energyIndex |-> energyIndex,
     energyAverage |-> energyAverage, beatCooldown |-> beatCooldown,
     aQueue |-> aQueue, produced |-> produced]

\* if (beatCooldown > 0) --beatCooldown;
CooldownAfter(c) == IF c > 0 THEN c - 1 ELSE c

\* snap.shortTimeEnergy = energy; snap.samplePosition = runningSamplePos;
Snapshot(pos, energy) == [samplePosition |-> pos, shortTimeEnergy |-> energy]

\* variant that updates the history, the average and the cooldown only for a
\* window whose snapshot the channel accepts
produceAnalysisSnapshotIfRoom(a, pos, energy) ==
    LET snap == Snapshot(pos, energy)
        old == a.energyHistory[a.energyIndex]
        average == a.energyAverage + (energy - old)
        ok == Len(a.aQueue) < Usable
    IN IF ok
       THEN [energyHistory |-> [a.energyHistory EXCEPT ![a.energyIndex] = energy],
             energyIndex |-> (a.energyIndex + 1) % energyHistorySize,
             energyAverage |-> average,
             beatCooldown |-> CooldownAfter(a.beatCooldown),
             aQueue |-> Append(a.aQueue, snap),
             produced |-> Append(a.produced,
                                 [snap |-> snap, accepted |-> TRUE,
                                  averageBefore |-> a.energyAverage,
                                  average |-> average, cooldown |-> a.beatCooldown])]
       ELSE [a EXCEPT !.produced =
                 Append(a.produced,
                        [snap |-> snap, accepted |-> FALSE,
                         averageBefore |-> a.energyAverage,
                         average |-> a.energyAverage, cooldown |-> a.beatCooldown])]
\* produceAnalysisSnapshot() on state a, for a window of the given energy,
\* runningSamplePos being pos
produceAnalysisSnapshot(a, pos, energy) ==
    LET snap == Snapshot(pos, energy)
        old == a.energyHistory[a.energyIndex]
        average == a.energyAverage + (energy - old)
        ok == Len(a.aQueue) < Usable
    IN [energyHistory |-> [a.energyHistory EXCEPT ![a.energyIndex] = energy],
        energyIndex |-> (a.energyIndex + 1) % energyHistorySize,
        energyAverage |-> average,
        beatCooldown |-> CooldownAfter(a.beatCooldown),
        aQueue |-> IF ok THEN Append(a.aQueue, snap) ELSE a.aQueue,
        produced |-> Append(a.produced,
                            [snap |-> snap, accepted |-> ok,
                             averageBefore |-> a.energyAverage, average |-> average,
                             cooldown |-> a.beatCooldown])]

\* the windows one block completes, in order
RECURSIVE ProduceAll(_, _, _)
ProduceAll(a, pos, energies) ==
    IF energies = <<>> THEN a
    ELSE ProduceAll(produceAnalysisSnapshot(a, pos, Head(energies)), pos, Tail(energies))

\* the energies of the windows one block can complete: none, one or two
EnergySeqs == UNION {[1..n -> EnergyInputs] : n \in 0..2}

\* processBlock with numSamples samples whose completed windows have the
\* given energies
processBlock(numSamples, energies) ==
    /\ nBlocks < MaxBlocks
    /\ Len(energies) = (fftWritePos + numSamples) \div fftSize
    /\ LET a == ProduceAll(Analysis, runningSamplePos, energies)
       IN /\ energyHistory' = a.energyHistory
          /\ energyIndex' = a.energyIndex
          /\ energyAverage' = a.energyAverage
          /\ beatCooldown' = a.beatCooldown
          /\ aQueue' = a.aQueue
          /\ produced' = a.produced
    /\ fftWritePos' = (fftWritePos + numSamples) % fftSize
    /\ runningSamplePos' = runningSamplePos + numSamples
    /\ nBlocks' = nBlocks + 1
    /\ UNCHANGED <<drainvars, framevars, stateside, extside, qvars, callvars, prodvars,
                   consvars, cacheside, ctlside>>

\* prepareToPlay with the worker constructed and running, so that start()
\* returns at its exchange; analysisQueue.clear() runs while the worker is
\* between two tryPop calls; the parameter values sendAllParamsToViz posts
\* travel on paramChanges.  energyHistory is not among the members it resets.
prepareToPlay ==
    /\ fftWritePos' = 0
    /\ runningSamplePos' = 0
    /\ energyIndex' = 0
    /\ energyAverage' = 0
    /\ beatCooldown' = 0
    /\ aQueue' = <<>>
    /\ produced' = <<>>
    /\ presetPosts' = IF currentPresetPath # NoPath
                      THEN Append(presetPosts, currentPresetPath) ELSE presetPosts
    /\ UNCHANGED <<energyHistory, nBlocks, drainvars, framevars, extside, qvars, callvars,
                   prodvars, consvars, cacheside, ctlside>>
    /\ UNCHANGED <<currentPresetPath, currentPlaylistFolderPath, playlistFiles,
                   playlistOrder, playlistPos, params, timerRunning, disk, saved, stateOp,
                   restored, nStateCalls>>

\* the host calls prepareToPlay and processBlock in any order
NextPrepare ==
    \/ prepareToPlay
    \/ \E numSamples \in BlockSizes, energies \in EnergySeqs :
           processBlock(numSamples, energies)

SpecPrepare == Init /\ [][NextPrepare]_vars

NextProducer ==
    \E numSamples \in BlockSizes, energies \in EnergySeqs :
        processBlock(numSamples, energies)

SpecProducer == Init /\ [][NextProducer]_vars

(***************************************************************************)
(* getStateInformation, setStateInformation and the playlist scan.  The    *)
(* order juce::Random gives a shuffled playlist is not computed: it is any *)
(* permutation.  Index i of a juce::Array is index i + 1 of a sequence.    *)
(***************************************************************************)
\* found.sort(comp): the files of a set in the order of their names
RECURSIVE SortedFiles(_)
SortedFiles(S) ==
    IF S = {} THEN <<>>
    ELSE LET f == CHOOSE x \in S : \A y \in S : x <= y
         IN <<f>> \o SortedFiles(S \ {f})

\* the files the scan keeps: the .milk files the ignore lists do not name
FoundFiles(d) == SortedFiles(d.milk \ d.ignored)

\* the orders rebuildPlaylistOrder can leave for n files
PlaylistOrders(n, shuffled) ==
    IF shuffled
    THEN {o \in [1..n -> 0..(n - 1)] : \A i, j \in 1..n : i # j => o[i] # o[j]}
    ELSE {[i \in 1..n |-> i - 1]}

\* juce::jlimit(0, size - 1, playlistPos < 0 ? 0 : playlistPos), -1 if empty
ClampedPos(n, pos) ==
    IF n = 0 THEN -1
    ELSE LET q == IF pos < 0 THEN 0 ELSE pos
         IN IF q > n - 1 THEN n - 1 ELSE q

\* setCurrentPresetPathAndPostLoad(f) on the entry the playlist position
\* names, the current path being path
SelectedAfterRestore(path, found, order, pos) ==
    LET f == found[order[pos + 1] + 1]
    IN IF f = path THEN path ELSE f

\* void getStateInformation(juce::MemoryBlock& destData)
getStateInformation ==
    /\ nStateCalls < MaxStateCalls
    /\ nStateCalls' = nStateCalls + 1
    /\ saved' = [presetPath |-> currentPresetPath,
                 playlistFolderPath |-> currentPlaylistFolderPath,
                 restoredFrom |-> IF stateOp = "set" THEN restored ELSE NoState]
    /\ stateOp' = "get"
    /\ UNCHANGED <<currentPresetPath, currentPlaylistFolderPath, playlistFiles,
                   playlistOrder, playlistPos, params, timerRunning, presetPosts, disk,
                   restored, anaside, extside, qvars, callvars, prodvars, consvars, cacheside,
                   ctlside>>

\* void setStateInformation(const void* data, int sizeInBytes) with the data
\* of state st, the shuffled order being order
setStateInformation(st, order) ==
    /\ nStateCalls < MaxStateCalls
    /\ nStateCalls' = nStateCalls + 1
    /\ stateOp' = "set"
    /\ restored' = st
    /\ currentPlaylistFolderPath' = st.playlistFolderPath
    /\ IF st.playlistFolderPath = NoFolder
       THEN /\ order = <<>>
            /\ currentPresetPath' = st.presetPath
            /\ params' = st.params
            /\ UNCHANGED <<playlistFiles, playlistOrder, playlistPos, timerRunning,
                           presetPosts>>
       ELSE LET found == IF disk.isDirectory THEN FoundFiles(disk) ELSE <<>>
                pos == ClampedPos(Len(found), -1)
                active == pos >= 0 /\ pos < Len(order)
                selected == IF active
                            THEN SelectedAfterRestore(st.presetPath, found, order, pos)
                            ELSE st.presetPath
            IN /\ order \in PlaylistOrders(Len(found), st.params.shuffle)
               /\ playlistFiles' = found
               /\ playlistOrder' = order
               /\ playlistPos' = pos
               /\ currentPresetPath' = selected
               /\ presetPosts' = IF selected # st.presetPath
                                 THEN Append(presetPosts, selected) ELSE presetPosts
               /\ params' = IF active THEN [st.params EXCEPT !.presetIndex = pos]
                            ELSE st.params
               /\ timerRunning' = IF disk.isDirectory
                                  THEN active /\ ~st.params.lockCurrentPreset
                                  ELSE timerRunning
    /\ UNCHANGED <<disk, saved, anaside, extside, qvars, callvars, prodvars, consvars, cacheside,
                   ctlside>>

\* the folder on disk changes
WriteDisk(d) ==
    /\ disk' = d
    /\ disk' # disk
    /\ UNCHANGED <<currentPresetPath, currentPlaylistFolderPath, playlistFiles,
                   playlistOrder, playlistPos, params, timerRunning, presetPosts, saved,
                   stateOp, restored, nStateCalls, anaside, extside, qvars, callvars, prodvars,
                   consvars, cacheside, ctlside>>

\* every order a playlist of the model can have
AllOrders == UNION {PlaylistOrders(n, TRUE) : n \in 0..Cardinality(Paths)}

NextState ==
    \/ getStateInformation
    \/ \E st \in SavedStates, order \in AllOrders : setStateInformation(st, order)
    \/ \E d \in DiskStates : WriteDisk(d)

SpecState == Init /\ [][NextState]_vars

(***************************************************************************)
(* Direct calls of the cache operations, one complete call per step (each  *)
(* call holds the cache lock from entry to return), and the file system    *)
(* changing underneath.                                                    *)
(***************************************************************************)
\* the refCount and the rest a caller may pass in a PresetMeta
RefArgs == {-1, 0, 1}
UpsertMetas ==
    { [name |-> n, paletteIndex |-> derivePaletteIndex(n),
       lastModified |-> ts, refCount |-> rc] :
          n \in UpsertNames, ts \in FileTimes, rc \in RefArgs }

getPresetMeta(p) ==
    /\ lastGet' = IF p \in DOMAIN map
                  THEN [hit |-> TRUE, out |-> map[p]]
                  ELSE NoGet
    /\ cacheOp' = [op |-> "getPresetMeta", path |-> p]
    /\ UNCHANGED <<map, files, origin, adds, rels, workervars, loadvars, queueside, ctlside>>

upsertPresetMeta(p, meta) ==
    /\ map' = MapAfterUpsert(map, p, meta)
    /\ cacheOp' = [op |-> "upsertPresetMeta", path |-> p]
    /\ origin' = [origin EXCEPT ![p] = "upsert"]
    /\ adds' = [adds EXCEPT ![p] = 0]
    /\ rels' = [rels EXCEPT ![p] = 0]
    /\ lastGet' = NoGet
    /\ UNCHANGED <<files, workervars, loadvars, queueside, ctlside>>

addRef(p) ==
    /\ RefCountOf(p) < MaxRef
    /\ adds[p] < MaxAdds
    /\ map' = MapAfterAddRef(map, files, p)
    /\ cacheOp' = [op |-> "addRef", path |-> p]
    /\ IF p \notin DOMAIN map
       THEN /\ origin' = [origin EXCEPT ![p] = "addRef"]
            /\ adds' = [adds EXCEPT ![p] = 1]
            /\ rels' = [rels EXCEPT ![p] = 0]
       ELSE /\ adds' = [adds EXCEPT ![p] = IF origin[p] = "addRef" THEN @ + 1 ELSE @]
            /\ UNCHANGED <<origin, rels>>
    /\ lastGet' = NoGet
    /\ UNCHANGED <<files, workervars, loadvars, queueside, ctlside>>

release(p) ==
    /\ map' = MapAfterRelease(map, p)
    /\ cacheOp' = [op |-> "release", path |-> p]
    /\ IF p \in DOMAIN map
       THEN /\ rels' = [rels EXCEPT ![p] = IF origin[p] = "addRef" THEN @ + 1 ELSE @]
            /\ UNCHANGED <<origin, adds>>
       ELSE /\ origin' = [origin EXCEPT ![p] = "absent"]
            /\ adds' = [adds EXCEPT ![p] = 0]
            /\ rels' = [rels EXCEPT ![p] = 0]
    /\ lastGet' = NoGet
    /\ UNCHANGED <<files, workervars, loadvars, queueside, ctlside>>

\* the file at p is written (or created)
TouchFile(p) ==
    /\ files[p] < MaxTs
    /\ files' = [files EXCEPT ![p] = @ + 1]
    /\ UNCHANGED <<map, cacheOp, lastGet, origin, adds, rels, workervars, loadvars, queueside, ctlside>>

\* the file at p is deleted
DeleteFile(p) ==
    /\ files[p] > 0
    /\ files' = [files EXCEPT ![p] = 0]
    /\ UNCHANGED <<map, cacheOp, lastGet, origin, adds, rels, workervars, loadvars, queueside, ctlside>>

NextCache ==
    \/ \E p \in Paths : getPresetMeta(p)
    \/ \E p \in Paths, meta \in UpsertMetas : upsertPresetMeta(p, meta)
    \/ \E p \in Paths : addRef(p)
    \/ \E p \in Paths : release(p)
    \/ \E p \in Paths : TouchFile(p)
    \/ \E p \in Paths : DeleteFile(p)

SpecCache == Init /\ [][NextCache]_vars

(***************************************************************************)
(* VisualizationThread::applyPendingPresetLoads of every worker, one step  *)
(* per acquisition of the cache lock.  The path a worker starts with is    *)
(* what its drain of presetLoadRequests left in pendingPath.               *)
(***************************************************************************)
\* ProjectMContext::loadPreset succeeds
LoadPresetOk(fs, p) == ExistsAsFile(fs, p) /\ FileExtension(p) = ".milk"

\* the palette index ProjectMContext::loadPreset derives
LoadPresetPalette(presetName) ==
    LET hash == hashCode(presetName)
    IN IF hash = hashCode(<<>>) THEN 0 ELSE Abs(hash) % palettes

\* drain done; return if nothing new is requested
ApplyBegin(w, path) ==
    /\ wPc[w] = "idle"
    /\ cacheHits[w] + cacheMisses[w] < MaxLoads
    /\ IF path = lastAppliedPreset[w]
       THEN UNCHANGED <<wPc, pendingPath, wHit, wMeta>>
       ELSE /\ pendingPath' = [pendingPath EXCEPT ![w] = path]
            /\ wHit' = [wHit EXCEPT ![w] = FALSE]
            /\ wMeta' = [wMeta EXCEPT ![w] = DefaultMeta]
            /\ wPc' = [wPc EXCEPT ![w] = "getPresetMeta"]
    /\ UNCHANGED <<lastAppliedPreset, pmName, pmPalette, cacheHits, cacheMisses,
                   cachevars, loadvars, queueside, ctlside>>

\* hit = cache.getPresetMeta(pendingPath, meta)
ApplyGetPresetMeta(w) ==
    /\ wPc[w] = "getPresetMeta"
    /\ wHit' = [wHit EXCEPT ![w] = pendingPath[w] \in DOMAIN map]
    /\ wMeta' = [wMeta EXCEPT ![w] =
                    IF pendingPath[w] \in DOMAIN map THEN map[pendingPath[w]] ELSE @]
    /\ wPc' = [wPc EXCEPT ![w] = "validate"]
    /\ UNCHANGED <<pendingPath, lastAppliedPreset, pmName, pmPalette, cacheHits,
                   cacheMisses, cachevars, loadvars, queueside, ctlside>>

\* compare the timestamps; on a miss or a stale hit load the preset, on a
\* fresh hit apply the cached meta
ApplyValidate(w) ==
    /\ wPc[w] = "validate"
    /\ LET path == pendingPath[w]
           ts == LastModificationTime(files, path)
           nm == FileNameWithoutExtension(path)
       IN IF ~wHit[w] \/ ts # wMeta[w].lastModified
          THEN IF ~LoadPresetOk(files, path)
               THEN /\ wPc' = [wPc EXCEPT ![w] = "idle"]
                    /\ UNCHANGED <<wMeta, pmName, pmPalette, cacheHits>>
               ELSE /\ pmName' = [pmName EXCEPT ![w] = nm]
                    /\ pmPalette' = [pmPalette EXCEPT ![w] = LoadPresetPalette(nm)]
                    /\ wMeta' = [wMeta EXCEPT ![w] =
                                    [@ EXCEPT !.name = nm,
                                              !.paletteIndex = LoadPresetPalette(nm),
                                              !.lastModified = ts]]
                    /\ wPc' = [wPc EXCEPT ![w] = "upsert"]
                    /\ UNCHANGED cacheHits
          ELSE /\ pmName' = [pmName EXCEPT ![w] = wMeta[w].name]
               /\ pmPalette' = [pmPalette EXCEPT ![w] = wMeta[w].paletteIndex]
               /\ cacheHits' = [cacheHits EXCEPT ![w] = @ + 1]
               /\ wPc' = [wPc EXCEPT ![w] = "addRef"]
               /\ UNCHANGED wMeta
    /\ UNCHANGED <<pendingPath, wHit, lastAppliedPreset, cacheMisses, cachevars, loadvars,
                   queueside, ctlside>>

\* cache.upsertPresetMeta(pendingPath, meta); cacheMisses.fetch_add(1)
ApplyUpsert(w) ==
    /\ wPc[w] = "upsert"
    /\ map' = MapAfterUpsert(map, pendingPath[w], wMeta[w])
    /\ cacheMisses' = [cacheMisses EXCEPT ![w] = @ + 1]
    /\ wPc' = [wPc EXCEPT ![w] = "addRef"]
    /\ UNCHANGED <<files, cacheOp, lastGet, origin, adds, rels, pendingPath, wHit,
                   wMeta, lastAppliedPreset, pmName, pmPalette, cacheHits, loadvars,
                   queueside, ctlside>>

\* cache.addRef(pendingPath); without a previous preset this is the end
ApplyAddRef(w) ==
    /\ wPc[w] = "addRef"
    /\ RefCountOf(pendingPath[w]) < MaxRef
    /\ map' = MapAfterAddRef(map, files, pendingPath[w])
    /\ IF lastAppliedPreset[w] # NoPath /\ lastAppliedPreset[w] # pendingPath[w]
       THEN /\ wPc' = [wPc EXCEPT ![w] = "release"]
            /\ UNCHANGED lastAppliedPreset
       ELSE /\ wPc' = [wPc EXCEPT ![w] = "idle"]
            /\ lastAppliedPreset' = [lastAppliedPreset EXCEPT ![w] = pendingPath[w]]
    /\ UNCHANGED <<files, cacheOp, lastGet, origin, adds, rels, pendingPath, wHit,
                   wMeta, pmName, pmPalette, cacheHits, cacheMisses, loadvars,
                   queueside, ctlside>>

\* cache.release(lastAppliedPreset); lastAppliedPreset = pendingPath
ApplyRelease(w) ==
    /\ wPc[w] = "release"
    /\ map' = MapAfterRelease(map, lastAppliedPreset[w])
    /\ lastAppliedPreset' = [lastAppliedPreset EXCEPT ![w] = pendingPath[w]]
    /\ wPc' = [wPc EXCEPT ![w] = "idle"]
    /\ UNCHANGED <<files, cacheOp, lastGet, origin, adds, rels, pendingPath, wHit,
                   wMeta, pmName, pmPalette, cacheHits, cacheMisses, loadvars,
                   queueside, ctlside>>

NextWorkers ==
    \/ \E w \in Workers, path \in Paths : ApplyBegin(w, path)
    \/ \E w \in Workers : ApplyGetPresetMeta(w)
    \/ \E w \in Workers : ApplyValidate(w)
    \/ \E w \in Workers : ApplyUpsert(w)
    \/ \E w \in Workers : ApplyAddRef(w)
    \/ \E w \in Workers : ApplyRelease(w)
    \/ \E p \in Paths : TouchFile(p)
    \/ \E p \in Paths : DeleteFile(p)

SpecWorkers == Init /\ [][NextWorkers]_vars

WorkersIdle == \A w \in Workers : wPc[w] = "idle"

(***************************************************************************)
(* The workers next to other users of SharedAssetCache::instance(), who    *)
(* call addRef and release on the same paths; one of the paths is not a    *)
(* .milk file.                                                             *)
(***************************************************************************)
SharedPaths == {1, TextPath}
\* one worker is enough next to the other users
SharedWorkers == {1}

NextShared ==
    \/ \E w \in SharedWorkers, path \in SharedPaths : ApplyBegin(w, path)
    \/ \E w \in SharedWorkers : ApplyGetPresetMeta(w)
    \/ \E w \in SharedWorkers : ApplyValidate(w)
    \/ \E w \in SharedWorkers : ApplyUpsert(w)
    \/ \E w \in SharedWorkers : ApplyAddRef(w)
    \/ \E w \in SharedWorkers : ApplyRelease(w)
    \/ \E p \in SharedPaths : addRef(p)
    \/ \E p \in SharedPaths : release(p)
    \/ \E p \in SharedPaths : DeleteFile(p)

SpecShared == Init /\ [][NextShared]_vars

\* the path whose file changes while the cache holds an entry for it
StalePaths == {1}

\* one worker next to the other users of SharedAssetCache::instance() and to
\* writers of a preset file
NextStale ==
    \/ \E w \in SharedWorkers, path \in Paths : ApplyBegin(w, path)
    \/ \E w \in SharedWorkers : ApplyGetPresetMeta(w)
    \/ \E w \in SharedWorkers : ApplyValidate(w)
    \/ \E w \in SharedWorkers : ApplyUpsert(w)
    \/ \E w \in SharedWorkers : ApplyAddRef(w)
    \/ \E w \in SharedWorkers : ApplyRelease(w)
    \/ \E p \in StalePaths : addRef(p)
    \/ \E p \in StalePaths : release(p)
    \/ \E p \in StalePaths : TouchFile(p)
    \/ \E p \in StalePaths : DeleteFile(p)

SpecStale == Init /\ [][NextStale]_vars

(***************************************************************************)
(* VisualizationThread::postLoadPreset and the drain loop at the head of   *)
(* applyPendingPresetLoads.  presetLoadRequests is held as the sequence of *)
(* the paths in it: one thread posts, the worker pops.  NoPath is the      *)
(* empty string.                                                           *)
(***************************************************************************)
RequestPaths == Paths \cup {NoPath}

\* variant of the loop body: the first non-empty path is kept
KeepFirst(cur, tmp) == IF cur = NoPath THEN tmp ELSE cur
\* if (tmp.isNotEmpty()) pendingPath = tmp;
KeepLatest(cur, tmp) == IF tmp # NoPath THEN tmp ELSE cur

\* bool postLoadPreset(const juce::String& path)
postLoadPreset(w, path) ==
    /\ nLoadPosts < MaxLoadPosts
    /\ nLoadPosts' = nLoadPosts + 1
    /\ requests' = [requests EXCEPT ![w] =
                        IF Len(@) < Usable THEN Append(@, path) ELSE @]
    /\ UNCHANGED <<drained, dedup, cachevars, workervars, queueside, ctlside>>

\* applyPendingPresetLoads entered: pendingPath and tmp are empty strings
ApplyDrainBegin(w) ==
    /\ wPc[w] = "idle"
    /\ cacheHits[w] + cacheMisses[w] < MaxLoads
    /\ wPc' = [wPc EXCEPT ![w] = "drain"]
    /\ pendingPath' = [pendingPath EXCEPT ![w] = NoPath]
    /\ drained' = [drained EXCEPT ![w] = <<>>]
    /\ dedup' = [dedup EXCEPT ![w] = FALSE]
    /\ UNCHANGED <<requests, nLoadPosts, wHit, wMeta, lastAppliedPreset, pmName,
                   pmPalette, cacheHits, cacheMisses, cachevars, queueside, ctlside>>

\* presetLoadRequests.tryPop(tmp) returned true
ApplyDrainPop(w) ==
    /\ wPc[w] = "drain"
    /\ requests[w] # <<>>
    /\ requests' = [requests EXCEPT ![w] = Tail(@)]
    /\ drained' = [drained EXCEPT ![w] = Append(@, Head(requests[w]))]
    /\ pendingPath' = [pendingPath EXCEPT ![w] = KeepLatest(@, Head(requests[w]))]
    /\ UNCHANGED <<dedup, nLoadPosts, wPc, wHit, wMeta, lastAppliedPreset, pmName,
                   pmPalette, cacheHits, cacheMisses, cachevars, queueside, ctlside>>

\* tryPop returned false: return on an empty path or on the path already
\* applied, else go on to the cache lookup
ApplyDrainEnd(w) ==
    /\ wPc[w] = "drain"
    /\ requests[w] = <<>>
    /\ IF pendingPath[w] = NoPath \/ pendingPath[w] = lastAppliedPreset[w]
       THEN /\ wPc' = [wPc EXCEPT ![w] = "idle"]
            /\ dedup' = [dedup EXCEPT ![w] = pendingPath[w] # NoPath]
            /\ UNCHANGED <<wHit, wMeta>>
       ELSE /\ wHit' = [wHit EXCEPT ![w] = FALSE]
            /\ wMeta' = [wMeta EXCEPT ![w] = DefaultMeta]
            /\ wPc' = [wPc EXCEPT ![w] = "getPresetMeta"]
            /\ UNCHANGED dedup
    /\ UNCHANGED <<requests, drained, nLoadPosts, pendingPath, lastAppliedPreset, pmName,
                   pmPalette, cacheHits, cacheMisses, cachevars, queueside, ctlside>>

NextLoads ==
    \/ \E w \in Workers, path \in RequestPaths : postLoadPreset(w, path)
    \/ \E w \in Workers : ApplyDrainBegin(w)
    \/ \E w \in Workers : ApplyDrainPop(w)
    \/ \E w \in Workers : ApplyDrainEnd(w)
    \/ \E w \in Workers : ApplyGetPresetMeta(w)
    \/ \E w \in Workers : ApplyValidate(w)
    \/ \E w \in Workers : ApplyUpsert(w)
    \/ \E w \in Workers : ApplyAddRef(w)
    \/ \E w \in Workers : ApplyRelease(w)
    \/ \E p \in Paths : DeleteFile(p)

SpecLoads == Init /\ [][NextLoads]_vars

\* the last non-empty path of a sequence of requested paths, NoPath if none
RECURSIVE LastNonEmpty(_)
LastNonEmpty(s) ==
    IF s = <<>> THEN NoPath
    ELSE IF s[Len(s)] # NoPath THEN s[Len(s)]
    ELSE LastNonEmpty(SubSeq(s, 1, Len(s) - 1))

(***************************************************************************)
(* SharedAssetCache::derivePaletteIndex called directly, between cache     *)
(* operations: every result is recorded under the name it was called with. *)
(***************************************************************************)
derivePaletteIndexCall(presetName) ==
    /\ paletteSeen' = [paletteSeen EXCEPT
                           ![presetName] = @ \cup {derivePaletteIndex(presetName)}]
    /\ UNCHANGED <<aqvars, threadside, relayside, cacheside, queueside>>

\* the calls that change the cache or the files, and derivePaletteIndex
NextPalette ==
    \/ \E p \in Paths, meta \in UpsertMetas : upsertPresetMeta(p, meta)
    \/ \E p \in Paths : addRef(p)
    \/ \E p \in Paths : release(p)
    \/ \E p \in Paths : TouchFile(p)
    \/ \E p \in Paths : DeleteFile(p)
    \/ \E n \in PresetNames : derivePaletteIndexCall(n)

SpecPalette == Init /\ [][NextPalette]_vars

(***************************************************************************)
(* The palette rule as a function of the 32-bit hash: derivePaletteIndex   *)
(* and ProjectMContext::loadPreset applied to a name whose hashCode() is   *)
(* given.  juce::String::hashCode() returns an int and takes every int     *)
(* value for some name.                                                    *)
(***************************************************************************)
\* the range of int
IntMax == 2147483647
IntMin == -IntMax - 1

\* how many hash values are taken next to each of INT_MIN, 0 and INT_MAX
HashSpan == 30
HashInputs ==
    {IntMin + k : k \in 0..HashSpan} \cup ((-HashSpan)..HashSpan)
        \cup {IntMax - k : k \in 0..HashSpan}

\* a % b of C++ for b > 0: the quotient is truncated towards zero, so the
\* result has the sign of a
Rem(a, b) == IF a < 0 /\ a % b # 0 THEN (a % b) - b ELSE a % b

\* std::abs(hash) % palettes.  The absolute value of INT_MIN is not
\* representable: the behaviour is undefined, and the result can be any int
\* (a negation that wraps returns INT_MIN again, and INT_MIN % 5 is -3)
AbsRemOutcomes(hash) ==
    IF hash = IntMin
    THEN (-(palettes - 1))..(palettes - 1)
    ELSE {Rem(Abs(hash), palettes)}

\* derivePaletteIndex on a name with the given hash: what it can return
derivePaletteIndexOfHash(hash) ==
    IF hash = hashCode(<<>>) THEN {0} ELSE AbsRemOutcomes(hash)

\* loadPreset on a name with the given hash: what paletteIndex can become
loadPresetPaletteOfHash(hash) ==
    IF hash = hashCode(<<>>) THEN {0} ELSE AbsRemOutcomes(hash)

\* both rules applied to one name
paletteOfHash(hash) ==
    /\ palHash' = hash
    /\ palCalled' = TRUE
    /\ \E a \in derivePaletteIndexOfHash(hash) : palCache' = a
    /\ \E b \in loadPresetPaletteOfHash(hash) : palViz' = b
    /\ UNCHANGED <<qvars, callvars, prodvars, consvars, anaside, stateside, sizevars,
                   pcmvars, accvars, clearvars, twovars, cacheside, ctlside>>

NextHash == \E hash \in HashInputs : paletteOfHash(hash)

SpecHash == Init /\ [][NextHash]_vars

(***************************************************************************)
(* AdaptiveQualityController: setQualityMode and evaluate, with any mode   *)
(* value (the worker casts a rounded float to the enum) and any metrics.   *)
(***************************************************************************)
Max(a, b) == IF a > b THEN a ELSE b

\* mode values setQualityMode is called with, and metrics evaluate is given
ModeInputs == {-1, Auto, Low, Medium, High, 4}
FpsInputs == {-1, 0, 44, 50, 58}
FrameMsInputs == {0, 17}
CpuInputs == {50, 51, 80}

\* variant of stepDown that compares fps with the low threshold alone
StepDownBelowLow(fpsEma, cpuPct) ==
    \/ fpsEma > 0 /\ fpsEma < fpsLow
    \/ cpuPct >= aqCpuHigh
\* bool stepDown, bool stepUp (0.85 * tfps and 0.95 * tfps in hundredths)
StepDown(fpsEma, cpuPct) ==
    \/ fpsEma > 0 /\ 100 * fpsEma < Min(100 * fpsLow, 85 * aqTargetFps)
    \/ cpuPct >= aqCpuHigh
StepUp(fpsEma, cpuPct) ==
    /\ 100 * fpsEma >= Max(100 * fpsHigh, 95 * aqTargetFps)
    /\ cpuPct <= aqCpuRelax

\* variant of the manual branch: every manual mode gives full resolution
ManualScaleFull(mode) == ScaleHigh
\* the switch of the manual branch
ManualScale(mode) ==
    CASE mode = Low -> ScaleLow
      [] mode = Medium -> ScaleMedium
      [] mode = High -> ScaleHigh
      [] OTHER -> ScaleHigh

\* variant of the Auto branch without jmax and jmin
AutoScaleUnclamped(scale, fpsEma, cpuPct) ==
    IF StepDown(fpsEma, cpuPct) THEN scale - ScaleStep
    ELSE IF StepUp(fpsEma, cpuPct) THEN scale + ScaleStep
    ELSE scale
\* the Auto branch
AutoScale(scale, fpsEma, cpuPct) ==
    IF StepDown(fpsEma, cpuPct) THEN Max(ScaleFloor, scale - ScaleStep)
    ELSE IF StepUp(fpsEma, cpuPct) THEN Min(ScaleCeil, scale + ScaleStep)
    ELSE scale

setQualityMode(mode) ==
    /\ manualMode' = mode
    /\ aqOp' = "setQualityMode"
    /\ UNCHANGED <<currentScale, aqEval, aqTargetFps, aqCpuHigh, aqCpuRelax, paletteSeen,
                   threadside, relayside, cacheside, queueside>>

evaluate(fpsEma, frameMsEma, cpuPct) ==
    /\ LET suggestedScale == IF manualMode # Auto
                             THEN ManualScale(manualMode)
                             ELSE AutoScale(currentScale, fpsEma, cpuPct)
       IN /\ currentScale' = suggestedScale
          /\ aqEval' = [mode |-> manualMode, before |-> currentScale,
                        suggestedScale |-> suggestedScale, fpsEma |-> fpsEma,
                        cpuPct |-> cpuPct]
    /\ aqOp' = "evaluate"
    /\ UNCHANGED <<manualMode, aqTargetFps, aqCpuHigh, aqCpuRelax, paletteSeen, threadside,
                   relayside, cacheside, queueside>>

\* juce::jlimit(0.0, 100.0, pct)
ClampPct(pct) == Max(0, Min(100, pct))

\* setCpuThresholds: neither value is compared with the other
setCpuThresholds(highPct, relaxPct) ==
    /\ aqCpuHigh' = ClampPct(highPct)
    /\ aqCpuRelax' = ClampPct(relaxPct)
    /\ aqOp' = "setCpuThresholds"
    /\ UNCHANGED <<manualMode, currentScale, aqEval, aqTargetFps, paletteSeen, threadside,
                   relayside, cacheside, queueside>>

(***************************************************************************)
(* VisualizationThread::run in one run of the worker: the drain of the     *)
(* analysis channel and the frame section of a pass through the loop.  The *)
(* sections between the two (parameter changes, preset loads) and after    *)
(* them (metrics) are the actions of the other specifications.  The worker *)
(* reads the clock once per pass; what it reads is the last reading plus   *)
(* the time elapsed since.                                                 *)
(***************************************************************************)
\* fps values setTargetFps is called with
TargetInputs == {0, 60, 1000}
\* time elapsed between two readings of the clock, in ticks
Elapsed == {0, 100, 700, 40000}
\* the same, next to a producer
DrainElapsed == {0, 100}
\* if (nowMs - nextFrameTimeMs > 5 * frameDurMs)
LateFactor == 5

\* if (fps < 1.0) fps = 1.0; if (fps > 240.0) fps = 240.0;
ClampFps(fps) == IF fps < 1 THEN 1 ELSE IF fps > 240 THEN 240 ELSE fps

\* VisualizationThread::setTargetFps, which hands the value on to
\* AdaptiveQualityController::setTargetFps
setTargetFps(fps) ==
    /\ vizTargetFps' = ClampFps(fps)
    /\ aqTargetFps' = ClampFps(fps)
    /\ aqOp' = "setTargetFps"
    /\ UNCHANGED <<manualMode, currentScale, aqEval, aqCpuHigh, aqCpuRelax, paletteSeen,
                   threadside, relayside, cacheside>>
    /\ UNCHANGED <<nowMs, nextFrameTimeMs, frameDurMs, framesRendered, didRender,
                   nAdvances, producervars, aQueue, drainvars, stateside, extside, qvars,
                   callvars, prodvars, consvars>>

\* fps values and cpu thresholds the setters of the controller are given
QualityTargets == {50, 60, 62}
CpuThresholdInputs == {<<80, 50>>, <<50, 101>>}

NextQuality ==
    \/ \E mode \in ModeInputs : setQualityMode(mode)
    \/ \E fpsEma \in FpsInputs, frameMsEma \in FrameMsInputs, cpuPct \in CpuInputs :
           evaluate(fpsEma, frameMsEma, cpuPct)
    \/ \E fps \in QualityTargets : setTargetFps(fps)
    \/ \E th \in CpuThresholdInputs : setCpuThresholds(th[1], th[2])

SpecQuality == Init /\ [][NextQuality]_vars

\* variant of the drain that keeps the first snapshot it popped
RetainedFirst(have, old, s) == IF have THEN old ELSE s
\* latest = s; haveLatest = true;
Retained(have, old, s) == s

\* variant of the counter that counts a pop twice
ConsumedTwice(n) == n + 2
\* framesConsumed.fetch_add(1, std::memory_order_relaxed);
Consumed(n) == n + 1

DrainFrame == <<framevars, producervars, stateside, extside, qvars, callvars, prodvars,
                consvars, cacheside, ctlside>>

\* while (queue.tryPop(s)): one call; the loop ends when it returns false
DrainPop ==
    /\ dPc = "tryPop"
    /\ IF aQueue # <<>>
       THEN /\ aQueue' = Tail(aQueue)
            /\ latest' = Retained(haveLatest, latest, Head(aQueue))
            /\ haveLatest' = TRUE
            /\ snapPopped' = Append(snapPopped, Head(aQueue))
            /\ dPc' = "publish"
       ELSE /\ dPc' = "frame"
            /\ UNCHANGED <<aQueue, latest, haveLatest, snapPopped>>
    /\ UNCHANGED <<latestSnapshot, latestHave, framesConsumed, renderedWith, latestGet,
                   DrainFrame>>

\* { ScopedLock sl(latestLock); latestSnapshot = latest; latestHave = true; }
DrainPublish ==
    /\ dPc = "publish"
    /\ latestSnapshot' = latest
    /\ latestHave' = TRUE
    /\ dPc' = "count"
    /\ UNCHANGED <<aQueue, latest, haveLatest, framesConsumed, snapPopped, renderedWith,
                   latestGet, DrainFrame>>

DrainCount ==
    /\ dPc = "count"
    /\ framesConsumed' = Consumed(framesConsumed)
    /\ dPc' = "tryPop"
    /\ UNCHANGED <<aQueue, latest, haveLatest, latestSnapshot, latestHave, snapPopped,
                   renderedWith, latestGet, DrainFrame>>

\* variant of the schedule that never resynchronises
NextFrameTimeStepped(next, now, dur) == next + dur
\* nextFrameTimeMs += frameDurMs;
\* if (nowMs - nextFrameTimeMs > 5 * frameDurMs) nextFrameTimeMs = nowMs + frameDurMs;
NextFrameTime(next, now, dur) ==
    IF now - (next + dur) > LateFactor * dur THEN now + dur ELSE next + dur

\* if (! backBuffer.isValid() || backBuffer.getWidth() != surface.width
\*     || backBuffer.getHeight() != surface.height) backBuffer = juce::Image(...)
BackBufferForFrame(bb, surf) ==
    IF bb = NoImage \/ bb.width # surf.width \/ bb.height # surf.height
    THEN [width |-> surf.width, height |-> surf.height]
    ELSE bb

\* the frame section of a pass, the clock having advanced by elapsed ticks
\* since the pass before: the frame is rendered with latest if it is due
frameStep(elapsed) ==
    /\ dPc = "frame"
    /\ elapsed = 0 \/ nAdvances < MaxAdvances
    /\ nAdvances' = IF elapsed = 0 THEN nAdvances ELSE nAdvances + 1
    /\ LET fps == vizTargetFps
           dur == FrameDur(fps)
           now == nowMs + elapsed
       IN /\ nowMs' = now
          /\ frameDurMs' = dur
          /\ IF now >= nextFrameTimeMs
             THEN /\ renderedWith' = <<[snap |-> latest, nPopped |-> Len(snapPopped)]>>
                  /\ backBuffer' = BackBufferForFrame(backBuffer, surface)
                  /\ drawnInto' = BackBufferForFrame(backBuffer, surface)
                  /\ framesRendered' = framesRendered + 1
                  /\ nextFrameTimeMs' = NextFrameTime(nextFrameTimeMs, now, dur)
                  /\ didRender' = TRUE
             ELSE /\ didRender' = FALSE
                  /\ UNCHANGED <<renderedWith, backBuffer, drawnInto, framesRendered,
                                 nextFrameTimeMs>>
    /\ dPc' = "tryPop"
    /\ UNCHANGED <<vizTargetFps, aQueue, latest, haveLatest, latestSnapshot, latestHave,
                   framesConsumed, snapPopped, latestGet, producervars, stateside, qvars,
                   callvars, prodvars, consvars, cacheside, ctlside>>
    /\ UNCHANGED <<surface, currentResolutionScale, nextMetricsLogMs, resizedFor, extrest>>

\* getLatestAnalysisSnapshot(out), called by another thread with a
\* default-constructed out; latestLock makes it one step next to the
\* worker's publication
getLatestAnalysisSnapshot ==
    /\ latestGet' = [called |-> TRUE, ret |-> latestHave,
                     out |-> IF latestHave THEN latestSnapshot ELSE DefaultSnapshot,
                     drained |-> (dPc = "frame"), nPopped |-> Len(snapPopped)]
    /\ UNCHANGED <<dPc, aQueue, latest, haveLatest, latestSnapshot, latestHave,
                   framesConsumed, snapPopped, renderedWith, DrainFrame>>

\* the energies of the windows of a block, next to the worker
DrainEnergySeqs == {<<>>, <<1>>, <<1, 50>>}

\* the audio callback next to the worker
NextDrain ==
    \/ \E numSamples \in BlockSizes, energies \in DrainEnergySeqs :
           processBlock(numSamples, energies)
    \/ DrainPop
    \/ DrainPublish
    \/ DrainCount
    \/ \E elapsed \in DrainElapsed : frameStep(elapsed)

SpecDrain == Init /\ [][NextDrain]_vars

\* the same next to a caller of getLatestAnalysisSnapshot
NextLatest ==
    \/ \E numSamples \in BlockSizes, energies \in DrainEnergySeqs :
           processBlock(numSamples, energies)
    \/ DrainPop
    \/ DrainPublish
    \/ DrainCount
    \/ \E elapsed \in DrainElapsed : frameStep(elapsed)
    \/ getLatestAnalysisSnapshot

SpecLatest == Init /\ [][NextLatest]_vars

\* a step of the worker thread
DrainStep ==
    \/ DrainPop
    \/ DrainPublish
    \/ DrainCount
    \/ \E elapsed \in DrainElapsed : frameStep(elapsed)

\* the worker thread is scheduled again and again; the audio callback may
\* pause at any time
FairDrain == SpecDrain /\ WF_vars(DrainStep)

\* the worker's loop with an empty channel, next to a caller of setTargetFps
NextFrames ==
    \/ \E fps \in TargetInputs : setTargetFps(fps)
    \/ DrainPop
    \/ \E elapsed \in Elapsed : frameStep(elapsed)

SpecFrames == Init /\ [][NextFrames]_vars

(***************************************************************************)
(* VisualizationThread::run: the frame section and the metrics section of  *)
(* a pass, which evaluates the quality controller and resizes backBuffer,  *)
(* next to a caller of setSurfaceSize.  backBufferLock makes each of the   *)
(* three sections one step.                                                *)
(***************************************************************************)
\* sizes setSurfaceSize is called with, metrics the evaluation is given, and
\* the time elapsed between two passes
SurfaceInputs == {<<1, 1>>, <<3, 5>>, <<1280, 720>>}
ResizeModes == {Auto, Low}
ResizeFps == {44, 58}
ResizeCpu == {50}
ResizeElapsed == {0, 100, 12000}

\* if (w < 2) w = 2; if (h < 2) h = 2;
AtLeastTwo(x) == IF x < 2 THEN 2 ELSE x

setSurfaceSize(w, h) ==
    /\ surface' = [width |-> AtLeastTwo(w), height |-> AtLeastTwo(h)]
    /\ backBuffer' = [width |-> AtLeastTwo(w), height |-> AtLeastTwo(h)]
    /\ resizedFor' = 0
    /\ UNCHANGED <<currentResolutionScale, nextMetricsLogMs, drawnInto, extrest, anaside,
                   stateside, qvars, callvars, prodvars, consvars, cacheside, ctlside>>

\* targetW, targetH: juce::jmax(2, (int)(surface.width * currentResolutionScale))
ScaledSize(surf, scale) ==
    [width |-> Max(2, (surf.width * scale) \div 100),
     height |-> Max(2, (surf.height * scale) \div 100)]

\* a pass from the frame section to the end of the metrics section; the
\* metrics section is entered when the clock has reached nextMetricsLogMs and
\* is given the averages measured so far
renderPass(elapsed, fpsEma, frameMsEma, cpuPct) ==
    /\ dPc = "frame"
    /\ elapsed = 0 \/ nAdvances < MaxAdvances
    /\ nAdvances' = IF elapsed = 0 THEN nAdvances ELSE nAdvances + 1
    /\ LET dur == FrameDur(vizTargetFps)
           now == nowMs + elapsed
           render == now >= nextFrameTimeMs
           metrics == now >= nextMetricsLogMs
           drawn == IF render THEN BackBufferForFrame(backBuffer, surface) ELSE backBuffer
           suggestedScale == IF manualMode # Auto
                             THEN ManualScale(manualMode)
                             ELSE AutoScale(currentScale, fpsEma, cpuPct)
           changed == Abs(suggestedScale - currentResolutionScale) > 1
       IN /\ nowMs' = now
          /\ frameDurMs' = dur
          /\ didRender' = render
          /\ IF render
             THEN /\ renderedWith' = <<[snap |-> latest, nPopped |-> Len(snapPopped)]>>
                  /\ framesRendered' = framesRendered + 1
                  /\ nextFrameTimeMs' = NextFrameTime(nextFrameTimeMs, now, dur)
             ELSE UNCHANGED <<renderedWith, framesRendered, nextFrameTimeMs>>
          /\ IF metrics
             THEN /\ currentScale' = suggestedScale
                  /\ aqEval' = [mode |-> manualMode, before |-> currentScale,
                                suggestedScale |-> suggestedScale, fpsEma |-> fpsEma,
                                cpuPct |-> cpuPct]
                  /\ aqOp' = "evaluate"
                  /\ currentResolutionScale' = suggestedScale
                  /\ backBuffer' = IF changed THEN ScaledSize(surface, suggestedScale)
                                   ELSE drawn
                  /\ nextMetricsLogMs' = now + metricsLogIntervalMs * TicksPerMs
                  /\ resizedFor' = IF changed THEN suggestedScale ELSE 0
                  /\ drawnInto' = NoImage
             ELSE /\ backBuffer' = drawn
                  /\ drawnInto' = IF render THEN drawn ELSE drawnInto
                  /\ UNCHANGED <<currentScale, aqEval, aqOp, currentResolutionScale,
                                 nextMetricsLogMs, resizedFor>>
    /\ dPc' = "tryPop"
    /\ UNCHANGED <<surface, extrest, manualMode, aqTargetFps, aqCpuHigh, aqCpuRelax,
                   paletteSeen, threadside, relayside, cacheside>>
    /\ UNCHANGED <<vizTargetFps, aQueue, latest, haveLatest, latestSnapshot, latestHave,
                   framesConsumed, snapPopped, latestGet, producervars, stateside, qvars,
                   callvars, prodvars, consvars>>

NextResize ==
    \/ \E size \in SurfaceInputs : setSurfaceSize(size[1], size[2])
    \/ \E mode \in ResizeModes : setQualityMode(mode)
    \/ DrainPop
    \/ \E elapsed \in ResizeElapsed, fpsEma \in ResizeFps, cpuPct \in ResizeCpu :
           renderPass(elapsed, fpsEma, 17, cpuPct)

SpecResize == Init /\ [][NextResize]_vars

(***************************************************************************)
(* VisualizationThread::PcmRing with postAudioBlockInterleaved and         *)
(* getLatestPcmWindow, called one after the other.  A block is the         *)
(* sequence of its samples, left and right in turn.                        *)
(***************************************************************************)
\* the frames of a block, the sample rates and the clock readings of a post,
\* and the numbers of frames asked for
PcmFrames == {<<1, 2>>, <<3, 4>>}
PcmBlocks == {<<>>} \cup {f : f \in PcmFrames} \cup {f \o g : f, g \in PcmFrames}
PcmRates == {44100, 48000}
PcmClock == {10}
DesiredInputs == -1..(PcmCapacity + 1)

\* PcmRing::pushInterleaved: the data and the write position after the
\* frames of block were written from position w on
RECURSIVE pushInterleaved(_, _, _)
pushInterleaved(data, w, block) ==
    IF block = <<>> THEN [data |-> data, w |-> w]
    ELSE LET pos == (w % PcmCapacity) * 2
         IN pushInterleaved([data EXCEPT ![pos] = block[1], ![pos + 1] = block[2]],
                            (w + 1) % PcmCapacity, SubSeq(block, 3, Len(block)))

\* variant of the read position that starts at the write position
CopyPosFromWrite(w, framesToCopy, i) == (w + i) % PcmCapacity
\* const size_t pos = (w + cap - (size_t)framesToCopy + (size_t)i) % cap;
CopyPos(w, framesToCopy, i) == (w + PcmCapacity - framesToCopy + i) % PcmCapacity

\* PcmRing::copyLatest: out, resized to desiredFrames frames
copyLatest(desiredFrames) ==
    LET framesToCopy == Min(PcmCapacity, desiredFrames)
    IN [k \in 1..(2 * Max(0, desiredFrames)) |->
           IF desiredFrames <= 0 \/ k > 2 * framesToCopy THEN 0
           ELSE pcmData[CopyPos(writePosFrames, framesToCopy, (k - 1) \div 2) * 2
                        + ((k - 1) % 2)]]

\* postAudioBlockInterleaved(block.data(), numFrames, sampleRate), the clock
\* reading now
postAudioBlockInterleaved(block, sampleRate, now) ==
    /\ Len(pcmPosted) + Len(block) <= 2 * MaxPcmFrames
    /\ IF Len(block) = 0
       THEN UNCHANGED <<pcmData, writePosFrames, pcmSampleRate, lastPcmWriteMs, pcmPosted>>
       ELSE LET r == pushInterleaved(pcmData, writePosFrames, block)
            IN /\ pcmSampleRate' = sampleRate
               /\ pcmData' = r.data
               /\ writePosFrames' = r.w
               /\ lastPcmWriteMs' = now
               /\ pcmPosted' = pcmPosted \o block
    /\ UNCHANGED <<pcmGet, accvars, clearvars, latevars, sizevars, anaside, stateside, qvars, callvars, prodvars, consvars,
                   cacheside, ctlside>>

\* getLatestPcmWindow(outInterleaved, desiredFrames, outSampleRate)
getLatestPcmWindow(desiredFrames) ==
    /\ LET desired == IF desiredFrames <= 0 THEN DefaultWindow ELSE desiredFrames
           out == copyLatest(desired)
       IN pcmGet' = [called |-> TRUE, desiredFrames |-> desiredFrames, out |-> out,
                     ret |-> (out # <<>>), outSampleRate |-> pcmSampleRate,
                     posted |-> Len(pcmPosted) \div 2]
    /\ UNCHANGED <<pcmData, writePosFrames, pcmSampleRate, lastPcmWriteMs, pcmPosted,
                   accvars, clearvars, latevars, sizevars, anaside, stateside, qvars, callvars, prodvars, consvars,
                   cacheside, ctlside>>

NextPcm ==
    \/ \E block \in PcmBlocks, sampleRate \in PcmRates, now \in PcmClock :
           postAudioBlockInterleaved(block, sampleRate, now)
    \/ \E desiredFrames \in DesiredInputs : getLatestPcmWindow(desiredFrames)

SpecPcm == Init /\ [][NextPcm]_vars

(***************************************************************************)
(* analysisQueue between the host thread, which calls processBlock and     *)
(* prepareToPlay one after the other, and the worker, which calls tryPop.  *)
(* tryPop and clear() are taken load by load and store by store.  head and *)
(* tail are kept unwrapped: the code uses them only through & mask and     *)
(* + 1, and the range of size_t is a multiple of the capacity.             *)
(***************************************************************************)
\* tryPush calls accepted beyond one round of the slots, tryPush calls
\* accepted in all, and clear() calls made
ExtraPushes == 3
MaxAnalysisPushes == CapacityPow2 + ExtraPushes
MaxClears == 2

ClearFrame == <<sizevars, pcmvars, accvars, latevars, anaside, stateside, qvars, callvars, prodvars,
                consvars, cacheside, ctlside>>

\* AudioAnalysisQueue::tryPush in produceAnalysisSnapshot, between two calls
\* of prepareToPlay: the loads and the full test, after which
\* buffer[h & mask] = s begins
analysisPushWrite ==
    /\ gPc = "idle"
    /\ aHead < MaxAnalysisPushes
    /\ ~IsFull(aHead, aTail)
    /\ gH' = aHead
    /\ gPc' = "write"
    /\ UNCHANGED <<aHead, aTail, aSlots, kPc, kT, kH, nClears, aPopped, ClearFrame>>

\* tryPush: the copy into the slot ends; head.store(h + 1, release)
analysisPushStoreHead ==
    /\ gPc = "write"
    /\ aSlots' = [aSlots EXCEPT ![Mask(gH)] = gH + 1]
    /\ aHead' = gH + 1
    /\ gPc' = "idle"
    /\ UNCHANGED <<aTail, kPc, kT, kH, gH, nClears, aPopped, ClearFrame>>

\* clear(): head.load(std::memory_order_relaxed)
clearLoadHead ==
    /\ gPc = "idle"
    /\ nClears < MaxClears
    /\ nClears' = nClears + 1
    /\ gH' = aHead
    /\ gPc' = "store"
    /\ UNCHANGED <<aHead, aTail, aSlots, kPc, kT, kH, aPopped, ClearFrame>>

\* clear(): tail.store(...)
clearStoreTail ==
    /\ gPc = "store"
    /\ aTail' = gH
    /\ gPc' = "idle"
    /\ UNCHANGED <<aHead, aSlots, kPc, kT, kH, gH, nClears, aPopped, ClearFrame>>

\* tryPop: const size_t t = tail.load(std::memory_order_relaxed);
analysisPopLoadTail ==
    /\ kPc = "idle"
    /\ kT' = aTail
    /\ kPc' = "loadHead"
    /\ UNCHANGED <<aHead, aTail, aSlots, kH, gPc, gH, nClears, aPopped, ClearFrame>>

\* tryPop: h = head.load(acquire); if ((t & mask) == (h & mask)) return false;
analysisPopLoadHead ==
    /\ kPc = "loadHead"
    /\ kH' = aHead
    /\ kPc' = IF IsEmpty(kT, aHead) THEN "idle" ELSE "read"
    /\ UNCHANGED <<aHead, aTail, aSlots, kT, gPc, gH, nClears, aPopped, ClearFrame>>

\* what a read of slot i can give: the snapshot it holds, or, while tryPush
\* is copying into the same slot (a data race on a plain struct), that
\* snapshot, the one being written or a mixture of the two
ReadOutcomes(i) ==
    IF gPc = "write" /\ Mask(gH) = i
    THEN {aSlots[i], gH + 1, Torn}
    ELSE {aSlots[i]}

\* tryPop: out = buffer[t & mask];
analysisPopRead ==
    /\ kPc = "read"
    /\ \E v \in ReadOutcomes(Mask(kT)) : aPopped' = Append(aPopped, v)
    /\ kPc' = "store"
    /\ UNCHANGED <<aHead, aTail, aSlots, kT, kH, gPc, gH, nClears, ClearFrame>>

\* tryPop: tail.store(t + 1, std::memory_order_release); return true;
analysisPopStoreTail ==
    /\ kPc = "store"
    /\ aTail' = kT + 1
    /\ kPc' = "idle"
    /\ UNCHANGED <<aHead, aSlots, kT, kH, gPc, gH, nClears, aPopped, ClearFrame>>

NextClear ==
    \/ analysisPushWrite
    \/ analysisPushStoreHead
    \/ clearLoadHead
    \/ clearStoreTail
    \/ analysisPopLoadTail
    \/ analysisPopLoadHead
    \/ analysisPopRead
    \/ analysisPopStoreTail

SpecClear == Init /\ [][NextClear]_vars

(***************************************************************************)
(* VisualizationThread: start(), stop() and run().  One thread makes the   *)
(* start()/stop() calls one after the other, the worker thread runs run()  *)
(* step by step, and a client thread makes the posting and snapshot calls. *)
(* The three channels are kept as item counts.                             *)
(***************************************************************************)
\* the locks a client call takes (juce::ScopedLock at its entry)
ClientOps == {"postParameterChange", "postLoadPreset", "postAudioBlockInterleaved",
              "produceAnalysisSnapshot", "getFrameSnapshot",
              "getLatestAnalysisSnapshot"}
PostOps == {"postParameterChange", "postLoadPreset", "postAudioBlockInterleaved"}

\* variant in which every call enters through latestLock
LocksOfAllLatest(op) == {"latestLock"}
\* the locks a call takes before its body
LocksOf(op) ==
    CASE op = "getFrameSnapshot" -> {"backBufferLock"}
      [] op = "getLatestAnalysisSnapshot" -> {"latestLock"}
      [] op = "setSurfaceSize" -> {"backBufferLock"}
      [] OTHER -> {}

\* variant of the loop condition: while (true)
LoopContinuesAlways(r) == TRUE
\* while (running.load(std::memory_order_relaxed))
LoopContinues(r) == r

\* variant of join: returns at once
JoinReturnsAtOnce(t) == TRUE
\* worker.join() returns when run() has returned
JoinReturns(t) == t = "done"

\* variant of the exchange that never fails
CasSucceedsAlways(current, expected) == TRUE
\* running.compare_exchange_strong(expected, desired) succeeds
CasSucceeds(current, expected) == current = expected

\* start(): compare_exchange_strong(false, true), then worker = std::thread(run);
\* assigning to a joinable std::thread calls std::terminate
start ==
    /\ callPc = "idle"
    /\ ~crashed
    /\ nLife < MaxLifeCalls
    /\ lifeOp' = "start"
    /\ nLife' = nLife + 1
    /\ lifeEarly' = ~CasSucceeds(running, FALSE)
    /\ IF ~CasSucceeds(running, FALSE)
       THEN UNCHANGED <<running, joinable, tPc, crashed, iterAfterStop>>
       ELSE /\ running' = TRUE
            /\ IF joinable
               THEN /\ crashed' = TRUE
                    /\ UNCHANGED <<joinable, tPc, iterAfterStop>>
               ELSE /\ joinable' = TRUE
                    /\ tPc' = "init"
                    /\ iterAfterStop' = 0
                    /\ UNCHANGED crashed
    /\ UNCHANGED <<pmInitialised, callPc, lockvars, chanvars, clientvars,
                   aqvars, paletteSeen, relayside, cacheside, queueside>>

\* stop(): compare_exchange_strong(true, false); if it fails return
stopCall ==
    /\ callPc = "idle"
    /\ ~crashed
    /\ nLife < MaxLifeCalls
    /\ lifeOp' = "stop"
    /\ nLife' = nLife + 1
    /\ lifeEarly' = ~CasSucceeds(running, TRUE)
    /\ IF ~CasSucceeds(running, TRUE)
       THEN UNCHANGED <<running, callPc>>
       ELSE /\ running' = FALSE
            /\ callPc' = IF joinable THEN "join" ELSE "idle"
    /\ UNCHANGED <<joinable, tPc, pmInitialised, crashed, iterAfterStop, lockvars,
                   chanvars, clientvars, aqvars, paletteSeen, relayside, cacheside, queueside>>

\* stop(): worker.join() returns
stopJoin ==
    /\ callPc = "join"
    /\ JoinReturns(tPc)
    /\ joinable' = FALSE
    /\ tPc' = "none"
    /\ callPc' = "idle"
    /\ UNCHANGED <<running, pmInitialised, crashed, lifeOp, lifeEarly, nLife,
                   iterAfterStop, lockvars, chanvars, clientvars, aqvars, paletteSeen,
                   relayside, cacheside, queueside>>

\* what a worker step leaves alone besides the variables it names
WorkerFrame == <<running, joinable, crashed, callPc, lifeOp, lifeEarly, nLife, clientvars,
                 aqvars, paletteSeen, relayside, cacheside, queueside>>

\* run(): pm.init(), surface.resize
RunInit ==
    /\ tPc = "init"
    /\ pmInitialised' = TRUE
    /\ tPc' = "loopHead"
    /\ UNCHANGED <<iterAfterStop, lockvars, chanvars, WorkerFrame>>

\* run(): the loop condition
RunLoopHead ==
    /\ tPc = "loopHead"
    /\ tPc' = IF LoopContinues(running) THEN "drain" ELSE "shutdown"
    /\ UNCHANGED <<pmInitialised, iterAfterStop, lockvars, chanvars, WorkerFrame>>

\* run(): while (queue.tryPop(s))
RunDrainPop ==
    /\ tPc = "drain"
    /\ IF aLen > 0
       THEN aLen' = aLen - 1 /\ tPc' = "publish"
       ELSE aLen' = aLen /\ tPc' = "params"
    /\ UNCHANGED <<pcLen, plLen, pmInitialised, iterAfterStop, lockvars, WorkerFrame>>

\* run(): juce::ScopedLock sl(latestLock)
RunPublishLock ==
    /\ tPc = "publish"
    /\ latestLock = "free"
    /\ latestLock' = "worker"
    /\ tPc' = "published"
    /\ UNCHANGED <<backBufferLock, pmInitialised, iterAfterStop, chanvars, WorkerFrame>>

\* run(): latestSnapshot = latest; the lock is released; next tryPop
RunPublishUnlock ==
    /\ tPc = "published"
    /\ latestLock' = "free"
    /\ tPc' = "drain"
    /\ UNCHANGED <<backBufferLock, pmInitialised, iterAfterStop, chanvars, WorkerFrame>>

\* applyPendingParameterChanges(): while (paramChanges.tryPop(pc))
RunApplyParameterChanges ==
    /\ tPc = "params"
    /\ IF pcLen > 0
       THEN pcLen' = pcLen - 1 /\ tPc' = tPc
       ELSE pcLen' = pcLen /\ tPc' = "presets"
    /\ UNCHANGED <<aLen, plLen, pmInitialised, iterAfterStop, lockvars, WorkerFrame>>

\* applyPendingPresetLoads(): while (presetLoadRequests.tryPop(tmp)); what
\* follows the drain is modelled by the Apply steps of SpecWorkers
RunApplyPresetLoads ==
    /\ tPc = "presets"
    /\ IF plLen > 0
       THEN plLen' = plLen - 1 /\ tPc' = tPc
       ELSE plLen' = plLen /\ tPc' = "frame"
    /\ UNCHANGED <<aLen, pcLen, pmInitialised, iterAfterStop, lockvars, WorkerFrame>>

\* run(): if (nowMs >= nextFrameTimeMs) and pm.initialised, render
RunFrameDue(due) ==
    /\ tPc = "frame"
    /\ tPc' = IF due /\ pmInitialised THEN "render" ELSE "metrics"
    /\ UNCHANGED <<pmInitialised, iterAfterStop, lockvars, chanvars, WorkerFrame>>

\* run(): juce::ScopedLock sl(backBufferLock) around the CPU render
RunRenderLock ==
    /\ tPc = "render"
    /\ backBufferLock = "free"
    /\ backBufferLock' = "worker"
    /\ tPc' = "rendering"
    /\ UNCHANGED <<latestLock, pmInitialised, iterAfterStop, chanvars, WorkerFrame>>

RunRenderUnlock ==
    /\ tPc = "rendering"
    /\ backBufferLock' = "free"
    /\ tPc' = "metrics"
    /\ UNCHANGED <<latestLock, pmInitialised, iterAfterStop, chanvars, WorkerFrame>>

\* run(): the periodic metrics log; a changed scale resizes the back buffer
\* under backBufferLock
RunMetrics(resize) ==
    /\ tPc = "metrics"
    /\ tPc' = IF resize THEN "resize" ELSE "sleep"
    /\ UNCHANGED <<pmInitialised, iterAfterStop, lockvars, chanvars, WorkerFrame>>

RunResizeLock ==
    /\ tPc = "resize"
    /\ backBufferLock = "free"
    /\ backBufferLock' = "worker"
    /\ tPc' = "resizing"
    /\ UNCHANGED <<latestLock, pmInitialised, iterAfterStop, chanvars, WorkerFrame>>

RunResizeUnlock ==
    /\ tPc = "resizing"
    /\ backBufferLock' = "free"
    /\ tPc' = "sleep"
    /\ UNCHANGED <<latestLock, pmInitialised, iterAfterStop, chanvars, WorkerFrame>>

\* run(): juce::Thread::sleep(1), the end of one iteration
RunSleep ==
    /\ tPc = "sleep"
    /\ tPc' = "loopHead"
    \* (counted up to 2: more than one)
    /\ iterAfterStop' = IF running THEN iterAfterStop
                        ELSE Min(iterAfterStop + 1, 2)
    /\ UNCHANGED <<pmInitialised, lockvars, chanvars, WorkerFrame>>

\* run(): pm.shutdown(), return
RunShutdown ==
    /\ tPc = "shutdown"
    /\ pmInitialised' = FALSE
    /\ tPc' = "done"
    /\ UNCHANGED <<iterAfterStop, lockvars, chanvars, WorkerFrame>>

WorkerStep ==
    \/ RunInit
    \/ RunLoopHead
    \/ RunDrainPop
    \/ RunPublishLock
    \/ RunPublishUnlock
    \/ RunApplyParameterChanges
    \/ RunApplyPresetLoads
    \/ \E due \in BOOLEAN : RunFrameDue(due)
    \/ RunRenderLock
    \/ RunRenderUnlock
    \/ \E resize \in BOOLEAN : RunMetrics(resize)
    \/ RunResizeLock
    \/ RunResizeUnlock
    \/ RunSleep
    \/ RunShutdown

\* holder of a lock after the client took or gave back the locks in ls
ClientTakes(holder, l, ls) == IF l \in ls THEN "client" ELSE holder
ClientGivesBack(holder) == IF holder = "client" THEN "free" ELSE holder

\* what a client step leaves alone besides the variables it names
ClientFrame == <<lifevars, aqvars, paletteSeen, relayside, cacheside, queueside>>

\* the client thread enters a call; numFrames matters to
\* postAudioBlockInterleaved only
ClientCall(op, numFrames) ==
    /\ clPc = "idle"
    /\ nOps < MaxOps
    /\ nOps' = nOps + 1
    /\ clOp' = op
    /\ clFrames' = IF op = "postAudioBlockInterleaved" THEN numFrames ELSE 0
    /\ clSteps' = 0
    /\ clRet' = FALSE
    /\ clPc' = IF LocksOf(op) # {} THEN "lock" ELSE "body"
    /\ UNCHANGED <<lockvars, chanvars, ClientFrame>>

\* juce::ScopedLock at the entry of the call: waits until the lock is free
ClientLock ==
    /\ clPc = "lock"
    /\ "latestLock" \in LocksOf(clOp) => latestLock = "free"
    /\ "backBufferLock" \in LocksOf(clOp) => backBufferLock = "free"
    /\ latestLock' = ClientTakes(latestLock, "latestLock", LocksOf(clOp))
    /\ backBufferLock' = ClientTakes(backBufferLock, "backBufferLock", LocksOf(clOp))
    /\ clPc' = "body"
    /\ clSteps' = clSteps + 1
    /\ UNCHANGED <<clOp, clFrames, clRet, nOps, chanvars, ClientFrame>>

\* the body of the call: a tryPush on the target channel (false when it is
\* full), one frame of PcmRing::pushInterleaved, or the copy of a snapshot;
\* returning releases the ScopedLock
ClientBody ==
    /\ clPc = "body"
    /\ clSteps' = clSteps + 1
    /\ IF clOp = "postAudioBlockInterleaved" /\ clFrames > 0
       THEN /\ clFrames' = clFrames - 1
            /\ clRet' = TRUE
            /\ UNCHANGED <<clPc, lockvars, chanvars>>
       ELSE /\ clPc' = "idle"
            /\ latestLock' = ClientGivesBack(latestLock)
            /\ backBufferLock' = ClientGivesBack(backBufferLock)
            /\ pcLen' = IF clOp = "postParameterChange" /\ pcLen < Usable
                        THEN pcLen + 1 ELSE pcLen
            /\ plLen' = IF clOp = "postLoadPreset" /\ plLen < Usable
                        THEN plLen + 1 ELSE plLen
            /\ aLen' = IF clOp = "produceAnalysisSnapshot" /\ aLen < Usable
                       THEN aLen + 1 ELSE aLen
            /\ clRet' = CASE clOp = "postParameterChange" -> pcLen < Usable
                          [] clOp = "postLoadPreset" -> plLen < Usable
                          [] clOp = "produceAnalysisSnapshot" -> aLen < Usable
                          [] OTHER -> clRet
            /\ UNCHANGED clFrames
    /\ UNCHANGED <<clOp, nOps, ClientFrame>>

ClientContinue == ClientLock \/ ClientBody

(***************************************************************************)
(* The render state shared between the worker and other threads: which     *)
(* fields each section of run() and each accessor reads or writes, and     *)
(* under which lock.  A thread is inside a section or a call from the step *)
(* that enters it (taking the lock, if the code takes one) to the step     *)
(* that leaves it.                                                         *)
(***************************************************************************)
\* the sections of run() that touch the shared render state: surface.resize
\* before the loop, the publication of latest, applyPendingPresetLoads with a
\* pending path, the CPU render and the resize after an evaluation
WorkerSections == {"init", "publish", "presets", "render", "resize"}
AccessCalls == {"getFrameSnapshot", "getLatestAnalysisSnapshot", "setSurfaceSize",
                "getCurrentPresetName"}
\* scales an evaluation returns
AccessScales == {50, 100}

\* the juce::ScopedLock a section of run() is under
SectionLocks(sec) ==
    CASE sec = "publish" -> {"latestLock"}
      [] sec \in {"render", "resize"} -> {"backBufferLock"}
      [] OTHER -> {}

R(f) == [field |-> f, write |-> FALSE]
W(f) == [field |-> f, write |-> TRUE]
\* the fields a section of run() or a call reads and writes
AccessOf(x) ==
    CASE x = "init" -> {W("surface")}
      [] x = "publish" -> {W("latestSnapshot")}
      [] x = "presets" -> {W("currentPresetName")}
      [] x = "render" -> {W("backBuffer"), R("surface"), R("currentPresetName")}
      [] x = "resize" -> {W("backBuffer"), R("surface")}
      [] x = "getFrameSnapshot" -> {R("backBuffer")}
      [] x = "getLatestAnalysisSnapshot" -> {R("latestSnapshot")}
      [] x = "setSurfaceSize" -> {W("surface"), W("backBuffer")}
      [] x = "getCurrentPresetName" -> {R("currentPresetName")}
      [] OTHER -> {}

AccessFrame == <<running, joinable, tPc, crashed, callPc, lifeOp, lifeEarly, nLife,
                 iterAfterStop, clOp, clPc, clFrames, clSteps, clRet, chanvars, aqvars,
                 paletteSeen, relayside, cacheside, qvars, callvars, prodvars, consvars,
                 anaside, stateside, pcmvars, clearvars, latevars, nextMetricsLogMs>>

\* the worker enters a section; the resize section is the one of an
\* evaluation that returned scale
WorkerEnter(sec, scale) ==
    /\ wAccess = "none"
    /\ (sec = "init") = ~pmInitialised
    /\ sec = "resize" => scale # currentResolutionScale
    /\ \A l \in SectionLocks(sec) :
           IF l = "latestLock" THEN latestLock = "free" ELSE backBufferLock = "free"
    /\ latestLock' = IF "latestLock" \in SectionLocks(sec) THEN "worker" ELSE latestLock
    /\ backBufferLock' = IF "backBufferLock" \in SectionLocks(sec) THEN "worker"
                         ELSE backBufferLock
    /\ wAccess' = sec
    /\ pmInitialised' = TRUE
    /\ surface' = IF sec = "init" THEN DefaultSurface ELSE surface
    /\ backBuffer' = CASE sec = "render" -> BackBufferForFrame(backBuffer, surface)
                       [] sec = "resize" -> ScaledSize(surface, scale)
                       [] OTHER -> backBuffer
    /\ drawnInto' = CASE sec = "render" -> BackBufferForFrame(backBuffer, surface)
                      [] sec = "resize" -> NoImage
                      [] OTHER -> drawnInto
    /\ currentResolutionScale' = IF sec = "resize" THEN scale ELSE currentResolutionScale
    /\ resizedFor' = IF sec = "resize" THEN scale ELSE resizedFor
    /\ UNCHANGED <<cAccess, nOps, AccessFrame>>

\* the worker leaves the section, which releases its ScopedLock
WorkerLeave ==
    /\ wAccess # "none"
    /\ wAccess' = "none"
    /\ latestLock' = IF latestLock = "worker" THEN "free" ELSE latestLock
    /\ backBufferLock' = IF backBufferLock = "worker" THEN "free" ELSE backBufferLock
    /\ UNCHANGED <<cAccess, nOps, pmInitialised, surface, backBuffer, drawnInto,
                   currentResolutionScale, resizedFor, AccessFrame>>

\* another thread enters one of the four calls; w and h matter to
\* setSurfaceSize only
AccessEnter(op, w, h) ==
    /\ cAccess = "none"
    /\ nOps < MaxOps
    /\ nOps' = nOps + 1
    /\ "latestLock" \in LocksOf(op) => latestLock = "free"
    /\ "backBufferLock" \in LocksOf(op) => backBufferLock = "free"
    /\ latestLock' = ClientTakes(latestLock, "latestLock", LocksOf(op))
    /\ backBufferLock' = ClientTakes(backBufferLock, "backBufferLock", LocksOf(op))
    /\ cAccess' = op
    /\ IF op = "setSurfaceSize"
       THEN /\ surface' = [width |-> AtLeastTwo(w), height |-> AtLeastTwo(h)]
            /\ backBuffer' = [width |-> AtLeastTwo(w), height |-> AtLeastTwo(h)]
            /\ resizedFor' = 0
       ELSE UNCHANGED <<surface, backBuffer, resizedFor>>
    /\ UNCHANGED <<wAccess, pmInitialised, drawnInto, currentResolutionScale, AccessFrame>>

\* the call returns, which releases its ScopedLock
AccessLeave ==
    /\ cAccess # "none"
    /\ cAccess' = "none"
    /\ latestLock' = ClientGivesBack(latestLock)
    /\ backBufferLock' = ClientGivesBack(backBufferLock)
    /\ UNCHANGED <<wAccess, nOps, pmInitialised, surface, backBuffer, drawnInto,
                   currentResolutionScale, resizedFor, AccessFrame>>

NextAccess ==
    \/ \E sec \in WorkerSections, scale \in AccessScales : WorkerEnter(sec, scale)
    \/ WorkerLeave
    \/ \E op \in AccessCalls, size \in SurfaceInputs : AccessEnter(op, size[1], size[2])
    \/ AccessLeave

SpecAccess == Init /\ [][NextAccess]_vars

NextLifecycle ==
    \/ start
    \/ stopCall
    \/ stopJoin
    \/ WorkerStep
    \/ \E op \in ClientOps, numFrames \in 0..MaxFrames : ClientCall(op, numFrames)
    \/ ClientContinue

SpecLifecycle == Init /\ [][NextLifecycle]_vars

\* scheduling: a thread that can take a step of run(), continue a call it is
\* in, or return from join eventually does so; nobody is obliged to make calls
SpecLifecycleFair ==
    /\ SpecLifecycle
    /\ WF_vars(WorkerStep)
    /\ WF_vars(ClientContinue)
    /\ WF_vars(stopJoin)

(***************************************************************************)
(* start() and stop() called by two threads on one VisualizationThread.    *)
(* A call is taken apart at the places where the other thread can come in: *)
(* the exchange on running; in start(), the construction of the temporary  *)
(* std::thread (the new thread runs from here on) and its move-assignment  *)
(* to worker; in stop(), worker.joinable() and the return of worker.join().*)
(* Of run() only the loop condition matters here.  After std::terminate    *)
(* nothing runs.                                                           *)
(***************************************************************************)
TwoFrame == <<qvars, callvars, prodvars, consvars, anaside, stateside, sizevars, pcmvars,
              accvars, clearvars, hashvars, cacheside, aqvars, paletteSeen, relayside, lockvars,
              chanvars, clientvars, tPc, pmInitialised, callPc, lifeOp, lifeEarly, nLife,
              iterAfterStop>>

\* the threads inside the loop of run()
Alive == {i \in ThreadIds : runPc[i] = "loop"}

\* start(): running.compare_exchange_strong(false, true); return if it fails
twoStartExchange(c) ==
    /\ twPc[c] = "idle"
    /\ ~crashed
    /\ nTwo < MaxTwoCalls
    /\ nTwo' = nTwo + 1
    /\ IF CasSucceeds(running, FALSE)
       THEN /\ running' = TRUE
            /\ twPc' = [twPc EXCEPT ![c] = "construct"]
       ELSE UNCHANGED <<running, twPc>>
    /\ UNCHANGED <<joinable, crashed, twTemp, twJoin, workerId, runPc, nThreads, stopAsked,
                   TwoFrame>>

\* start(): std::thread([this]{ this->run(); }) is constructed
twoStartConstruct(c) ==
    /\ twPc[c] = "construct"
    /\ ~crashed
    /\ nThreads' = nThreads + 1
    /\ runPc' = [runPc EXCEPT ![nThreads + 1] = "loop"]
    /\ twTemp' = [twTemp EXCEPT ![c] = nThreads + 1]
    /\ twPc' = [twPc EXCEPT ![c] = "assign"]
    /\ UNCHANGED <<running, joinable, crashed, twJoin, workerId, nTwo, stopAsked, TwoFrame>>

\* start(): worker = <temporary>; std::thread::operator= calls std::terminate
\* when worker is joinable
twoStartAssign(c) ==
    /\ twPc[c] = "assign"
    /\ ~crashed
    /\ IF joinable
       THEN /\ crashed' = TRUE
            /\ UNCHANGED <<joinable, workerId>>
       ELSE /\ joinable' = TRUE
            /\ workerId' = twTemp[c]
            /\ UNCHANGED crashed
    /\ twTemp' = [twTemp EXCEPT ![c] = 0]
    /\ twPc' = [twPc EXCEPT ![c] = "idle"]
    /\ UNCHANGED <<running, twJoin, runPc, nThreads, nTwo, stopAsked, TwoFrame>>

\* stop(): running.compare_exchange_strong(true, false); return if it fails
twoStopExchange(c) ==
    /\ twPc[c] = "idle"
    /\ ~crashed
    /\ nTwo < MaxTwoCalls
    /\ nTwo' = nTwo + 1
    /\ IF CasSucceeds(running, TRUE)
       THEN /\ running' = FALSE
            /\ twPc' = [twPc EXCEPT ![c] = "joinable"]
            /\ stopAsked' = stopAsked \cup Alive
       ELSE UNCHANGED <<running, twPc, stopAsked>>
    /\ UNCHANGED <<joinable, crashed, twTemp, twJoin, workerId, runPc, nThreads, TwoFrame>>

\* stop(): if (worker.joinable()) worker.join() is entered
twoStopJoinable(c) ==
    /\ twPc[c] = "joinable"
    /\ ~crashed
    /\ IF joinable
       THEN /\ twPc' = [twPc EXCEPT ![c] = "join"]
            /\ twJoin' = [twJoin EXCEPT ![c] = workerId]
       ELSE /\ twPc' = [twPc EXCEPT ![c] = "idle"]
            /\ UNCHANGED twJoin
    /\ UNCHANGED <<running, joinable, crashed, twTemp, workerId, runPc, nThreads, nTwo,
                   stopAsked, TwoFrame>>

\* stop(): worker.join() returns once the thread has left run()
twoStopJoin(c) ==
    /\ twPc[c] = "join"
    /\ ~crashed
    /\ runPc[twJoin[c]] = "done"
    /\ joinable' = FALSE
    /\ workerId' = 0
    /\ twJoin' = [twJoin EXCEPT ![c] = 0]
    /\ twPc' = [twPc EXCEPT ![c] = "idle"]
    /\ UNCHANGED <<running, crashed, twTemp, runPc, nThreads, nTwo, stopAsked, TwoFrame>>

\* run(): while (running.load(acquire)) is false; pm.shutdown(); return
twoRunExit(i) ==
    /\ runPc[i] = "loop"
    /\ ~crashed
    /\ ~running
    /\ runPc' = [runPc EXCEPT ![i] = "done"]
    /\ UNCHANGED <<running, joinable, crashed, twPc, twTemp, twJoin, workerId, nThreads,
                   nTwo, stopAsked, TwoFrame>>

NextTwo ==
    \/ \E c \in Callers : twoStartExchange(c)
    \/ \E c \in Callers : twoStartConstruct(c)
    \/ \E c \in Callers : twoStartAssign(c)
    \/ \E c \in Callers : twoStopExchange(c)
    \/ \E c \in Callers : twoStopJoinable(c)
    \/ \E c \in Callers : twoStopJoin(c)
    \/ \E i \in ThreadIds : twoRunExit(i)

SpecTwo == Init /\ [][NextTwo]_vars

\* scheduling: a thread inside start() or stop() goes on, and a thread in
\* run() evaluates the loop condition again; nobody is obliged to make calls
SpecTwoFair ==
    /\ SpecTwo
    /\ \A c \in Callers : WF_vars(twoStartConstruct(c))
    /\ \A c \in Callers : WF_vars(twoStartAssign(c))
    /\ \A c \in Callers : WF_vars(twoStopJoinable(c))
    /\ \A c \in Callers : WF_vars(twoStopJoin(c))
    /\ \A i \in ThreadIds : WF_vars(twoRunExit(i))

(***************************************************************************)
(* VisualizationThread::paramChanges as the worker uses it: the posting    *)
(* threads run postParameterChange (a tryPush of ParameterChange{id, value,*)
(* 0}), the worker runs the loop of applyPendingParameterChanges, a tryPop *)
(* followed by the setter of the popped change.  An item v of the channel  *)
(* stands for the ParameterChange ParamChangeOf(v).                        *)
(***************************************************************************)
\* the change postParameterChange builds for the item v: the first two values
\* are beatSensitivity changes, the others presetIndex changes
ParamChangeOf(v) ==
    [paramID |-> IF v \notin Vals THEN "" ELSE
                 IF v <= 2 THEN "beatSensitivity" ELSE "presetIndex",
     value |-> v + 1,
     sequence |-> 0]

\* the drain loop calls tryPop again once the popped change is applied
DrainPopCall ==
    /\ nApplied = Len(popped)
    /\ PopCall

\* the if-chain on pc.paramID: the setter of the named parameter stores the
\* value, an unknown id is skipped
ApplyParameterChange ==
    /\ cPc = "idle"
    /\ nApplied < Len(popped)
    /\ LET pc == ParamChangeOf(popped[nApplied + 1])
       IN live' = IF pc.paramID \in ParamIds
                  THEN [live EXCEPT ![pc.paramID] = pc.value]
                  ELSE live
    /\ nApplied' = nApplied + 1
    /\ UNCHANGED <<bridgevars, aqvars, paletteSeen, threadside, cacheside, queueside>>

NextParams ==
    \/ \E th \in Producers, v \in Vals : PushCall(th, v)
    \/ \E th \in Producers : PushLoadHead(th)
    \/ \E th \in Producers : PushLoadTail(th)
    \/ \E th \in Producers : PushWriteBegin(th)
    \/ \E th \in Producers : PushWriteEnd(th)
    \/ \E th \in Producers : PushStoreHead(th)
    \/ DrainPopCall
    \/ PopLoadTail
    \/ PopLoadHead
    \/ PopReadBegin
    \/ PopReadEnd
    \/ PopStoreTail
    \/ ApplyParameterChange

\* one posting thread
SpecParams == Init /\ [][NextParams]_vars
\* the audio thread and the message thread both post
SpecParamPosters == InitPosters /\ [][NextParams]_vars

\* the value of the last change for id in the sequence s of items, dflt if none
RECURSIVE LastValueFor(_, _, _)
LastValueFor(s, id, dflt) ==
    IF s = <<>> THEN dflt
    ELSE IF ParamChangeOf(s[Len(s)]).paramID = id
         THEN ParamChangeOf(s[Len(s)]).value
         ELSE LastValueFor(SubSeq(s, 1, Len(s) - 1), id, dflt)

\* the drain loop has ended: nothing is posted, popped or applied at the moment
\* and the channel is empty
Drained == Quiescent /\ nApplied = Len(popped) /\ IsEmpty(tail, head)

(***************************************************************************)
(* MessageThreadBridge: the audio thread posts, the message thread sets    *)
(* the listeners and then drains.  The relay audioToMessage is kept as the *)
(* sequence of the items it holds (its one producer and one consumer are   *)
(* the case of SpecSPSC).                                                  *)
(***************************************************************************)
Listeners == {"message", "viz"}

\* variant of the sequence counter that hands out one number over and over
FetchAddNone(n) == n
\* nextSeq after nextSeq.fetch_add(1)
FetchAdd(n) == n + 1

\* what a bridge step leaves alone besides the variables it names
BridgeFrame == <<paramvars, aqvars, paletteSeen, threadside, cacheside, queueside>>

\* setMessageListener(cb) / setVisualizationListener(cb) with a non-empty cb,
\* before the bridge is used
setListener(l) ==
    /\ brPc = "idle"
    /\ nextSeq = 0
    /\ l \notin brListeners
    /\ brListeners' = brListeners \cup {l}
    /\ UNCHANGED <<brQueue, nextSeq, brAccepted, brPopped, brDelivered, brPc, brItem,
                   BridgeFrame>>

\* postFromAudioToMessage(id, value): the sequence number is taken before
\* tryPush, which returns false when the relay is full
postFromAudioToMessage(v) ==
    /\ nextSeq < MaxRelay
    /\ LET pc == [ParamChangeOf(v) EXCEPT !.sequence = nextSeq]
       IN IF Len(brQueue) < Usable
          THEN /\ brQueue' = Append(brQueue, pc)
               /\ brAccepted' = Append(brAccepted, pc)
          ELSE UNCHANGED <<brQueue, brAccepted>>
    /\ nextSeq' = FetchAdd(nextSeq)
    /\ UNCHANGED <<brListeners, brPopped, brDelivered, brPc, brItem, BridgeFrame>>

\* the message thread enters drainOnMessageThread()
BridgeDrainCall ==
    /\ brPc = "idle"
    /\ brPc' = "pop"
    /\ UNCHANGED <<brQueue, nextSeq, brAccepted, brPopped, brDelivered, brListeners,
                   brItem, BridgeFrame>>

\* while (audioToMessage.tryPop(pc))
BridgeDrainPop ==
    /\ brPc = "pop"
    /\ IF brQueue = <<>>
       THEN /\ brPc' = "idle"
            /\ UNCHANGED <<brQueue, brPopped, brItem>>
       ELSE /\ brItem' = Head(brQueue)
            /\ brQueue' = Tail(brQueue)
            /\ brPopped' = Append(brPopped, Head(brQueue))
            /\ brPc' = "message"
    /\ UNCHANGED <<nextSeq, brAccepted, brDelivered, brListeners, BridgeFrame>>

\* if (messageListener) messageListener(pc)
BridgeCallMessageListener ==
    /\ brPc = "message"
    /\ brDelivered' = IF "message" \in brListeners
                      THEN [brDelivered EXCEPT !["message"] = Append(@, brItem)]
                      ELSE brDelivered
    /\ brPc' = "viz"
    /\ UNCHANGED <<brQueue, nextSeq, brAccepted, brPopped, brListeners, brItem,
                   BridgeFrame>>

\* if (vizListener) vizListener(pc)
BridgeCallVizListener ==
    /\ brPc = "viz"
    /\ brDelivered' = IF "viz" \in brListeners
                      THEN [brDelivered EXCEPT !["viz"] = Append(@, brItem)]
                      ELSE brDelivered
    /\ brPc' = "pop"
    /\ UNCHANGED <<brQueue, nextSeq, brAccepted, brPopped, brListeners, brItem,
                   BridgeFrame>>

NextBridge ==
    \/ \E l \in Listeners : setListener(l)
    \/ \E v \in Vals : postFromAudioToMessage(v)
    \/ BridgeDrainCall
    \/ BridgeDrainPop
    \/ BridgeCallMessageListener
    \/ BridgeCallVizListener

SpecBridge == Init /\ [][NextBridge]_vars

(***************************************************************************)
(* Properties of the sequential channel, checked under Spec.               *)
(***************************************************************************)
\* C1: over any sequence of tryPush and tryPop calls the values returned by
\* the successful tryPop calls are the values of the successful tryPush calls
\* in the same order: what was popped is a prefix of what was accepted, and
\* the rest is exactly what the channel still holds, in order.
C1_FifoNoLossNoDup ==
    /\ IsPrefix(popped, accepted)
    /\ accepted = popped \o Contents

\* more items than slots went through, with different values, and the
\* counters wrapped
C1_Witness ==
    /\ Len(popped) > CapacityPow2
    /\ \E i, j \in 1..Len(popped) : popped[i] # popped[j]
    /\ head < tail

\* C2 as stated: on an empty channel of capacity N = CapacityPow2, N pushes
\* succeed, the (N+1)-th fails, and the following pops drain exactly N items.
C2_Original ==
    /\ (nPop = 0 /\ nPush <= CapacityPow2) => Len(accepted) = nPush
    /\ (nPop = 0 /\ nPush > CapacityPow2) =>
           (lastRet = FALSE /\ Len(accepted) = CapacityPow2)
    /\ (pushesFirst /\ nPush > CapacityPow2) =>
           Len(popped) = Min(nPop, CapacityPow2)

\* C2 amended: on an empty channel N-1 consecutive pushes succeed, every
\* further push returns false and leaves the content unchanged, and the
\* following pops drain exactly the N-1 accepted items, in order.
C2_FullAtCapacityMinusOne ==
    /\ (nPop = 0 /\ nPush <= Usable) =>
           (Len(accepted) = nPush /\ Contents = accepted)
    /\ (nPop = 0 /\ nPush > Usable) =>
           (lastRet = FALSE /\ Len(accepted) = Usable /\ Contents = accepted)
    /\ (pushesFirst /\ nPush > Usable) =>
           popped = SubSeq(accepted, 1, Min(nPop, Usable))

\* pushes up to and beyond the limit, then a complete drain and one more pop
C2_Witness ==
    /\ pushesFirst
    /\ nPush > CapacityPow2
    /\ nPop > Usable
    /\ Len(popped) = Usable
    /\ lastCall = "tryPop" /\ lastRet = FALSE

\* C3 as stated: after k tryPush calls followed by j tryPop calls with
\* j <= k <= N, getNumAvailable() returns k - j.
C3_Original ==
    (pushesFirst /\ nPop <= nPush /\ nPush <= CapacityPow2) =>
        getNumAvailable = nPush - nPop

\* C3 amended: the same for j <= k <= N-1.
C3_NumAvailable ==
    (pushesFirst /\ nPop <= nPush /\ nPush <= Usable) =>
        getNumAvailable = nPush - nPop

\* the scenario of the test: three pushes, then two pops, one item left
C3_Witness ==
    /\ pushesFirst
    /\ nPush = 3 /\ nPush <= Usable
    /\ nPop = 2
    /\ getNumAvailable = 1

\* C4: tryPop returns false exactly when the channel holds no item (every
\* accepted item has been popped), and a tryPop or tryPush that returns false
\* leaves head, tail and every buffer slot unchanged.
C4_FailedCallChangesNothing ==
    [][ /\ (nPop' = nPop + 1) =>
               ((lastRet' = FALSE) <=> (Len(accepted) = Len(popped)))
        /\ ((nPop' = nPop + 1 \/ nPush' = nPush + 1) /\ lastRet' = FALSE) =>
               UNCHANGED <<head, tail, buffer>>
      ]_vars

\* a tryPop that failed on a channel drained after use
C4_Witness ==
    /\ lastCall = "tryPop" /\ lastRet = FALSE
    /\ Len(popped) > 0
    /\ Len(popped) = Len(accepted)

(***************************************************************************)
(* Properties of the concurrent channel.                                   *)
(***************************************************************************)
\* C5 (SpecSPSC): with one producer and one consumer interleaved at the
\* loads and stores, the consumer never copies a slot out while the producer
\* is copying into it, the slot it reads was published by a completed
\* head.store, and the popped values are a prefix of the accepted values.
C5_NoRacePrefix ==
    /\ \A th \in Producers :
          ~(/\ pPc[th] = "writing"
            /\ cPc \in {"readSlot", "reading"}
            /\ Mask(pH[th]) = Mask(cT))
    /\ cPc \in {"readSlot", "reading", "storeTail"} =>
          Sub(head, cT) \in 1..Usable
    /\ IsPrefix(popped, accepted)

\* the producer is in the middle of a copy into one slot while the consumer
\* is in the middle of a copy out of another, after an earlier pop
C5_Witness ==
    /\ pPc["audio"] = "writing"
    /\ cPc = "reading"
    /\ Len(popped) >= 1
    /\ Producers = {"audio"}

\* C6 (SpecPosters): every post that returned true enqueued its item once and
\* no accepted item is lost or overwritten by another poster: whenever no
\* call is in progress, the accepted items are the popped items followed by
\* the items the channel holds.
C6_NoAcceptedItemLost ==
    Quiescent => accepted = popped \o Contents

(***************************************************************************)
(* Properties of the cache, checked under SpecCache and SpecWorkers.       *)
(***************************************************************************)
\* C7 (SpecCache): for a path absent from the cache, addRef creates an entry
\* with refCount 1 and, over the addRef and release calls that follow on that
\* path, the entry's refCount is the number of addRef calls minus the number
\* of release calls, and the entry is evicted (a lookup misses) exactly when
\* the two numbers are equal.
C7_RefCountAddRelease ==
    \A p \in Paths :
        origin[p] = "addRef" =>
            /\ adds[p] >= rels[p]
            /\ (p \in DOMAIN map) <=> (adds[p] > rels[p])
            /\ (p \in DOMAIN map) => map[p].refCount = adds[p] - rels[p]

\* addRef, addRef, release, release on one path: the second release evicted
\* the entry, and the lookup that followed missed
C7_Witness ==
    \E p \in Paths :
        /\ origin[p] = "addRef"
        /\ adds[p] = 2 /\ rels[p] = 2
        /\ p \notin DOMAIN map
        /\ cacheOp = [op |-> "getPresetMeta", path |-> p]
        /\ ~lastGet.hit

\* C8 (SpecCache): in every reachable state every entry present in the cache
\* has refCount >= 1.
C8_PresentEntriesReferenced ==
    \A p \in DOMAIN map : map[p].refCount >= 1

\* C9 (SpecWorkers): whenever no worker is inside applyPendingPresetLoads,
\* the refCount of every path is the number of workers whose last applied
\* preset is that path.
C9_RefCountIsHolders ==
    WorkersIdle =>
        \A p \in Paths :
            RefCountOf(p) = Cardinality({w \in Workers : lastAppliedPreset[w] = p})

\* C10 (SpecCache): upsertPresetMeta on an existing entry leaves its refCount
\* as it was, whatever refCount the meta argument carries.
C10_UpsertKeepsRefCount ==
    [][ (cacheOp'.op = "upsertPresetMeta" /\ cacheOp'.path \in DOMAIN map) =>
            map'[cacheOp'.path].refCount = map[cacheOp'.path].refCount
      ]_vars

C12_ScaleInRangeAndStepBounded ==
    /\ currentScale \in ScaleFloor..ScaleCeil
    /\ aqEval.suggestedScale \in ScaleFloor..ScaleCeil
    /\ aqEval.mode = Auto => Abs(aqEval.suggestedScale - aqEval.before) <= ScaleStep

\* an Auto evaluation that started from the scale Medium left (0.75), stepped
\* down and was stopped by the lower limit
C12_Witness ==
    /\ aqOp = "evaluate"
    /\ aqEval.mode = Auto
    /\ aqEval.before = ScaleMedium - 2 * ScaleStep
    /\ aqEval.suggestedScale = ScaleFloor

\* C13 (SpecQuality): an evaluate in mode Low, Medium or High returns exactly
\* 0.5, 0.75 or 1.0 for every input and stores it in currentScale, and the
\* first Auto evaluate after it starts from that manual scale.
C13_ManualScaleExact ==
    [][ aqOp' = "evaluate" =>
          /\ manualMode = Low =>
                 (aqEval'.suggestedScale = ScaleLow /\ currentScale' = ScaleLow)
          /\ manualMode = Medium =>
                 (aqEval'.suggestedScale = ScaleMedium /\ currentScale' = ScaleMedium)
          /\ manualMode = High =>
                 (aqEval'.suggestedScale = ScaleHigh /\ currentScale' = ScaleHigh)
          /\ (manualMode = Auto /\ aqEval.mode \in {Low, Medium, High}) =>
                 aqEval'.before = (IF aqEval.mode = Low THEN ScaleLow
                                   ELSE IF aqEval.mode = Medium THEN ScaleMedium
                                   ELSE ScaleHigh)
      ]_vars

\* Medium was evaluated, the mode went back to Auto, and the Auto evaluate
\* stepped up from 0.75
C13_Witness ==
    /\ aqOp = "evaluate"
    /\ aqEval.mode = Auto
    /\ aqEval.before = ScaleMedium
    /\ aqEval.suggestedScale = ScaleMedium + ScaleStep

(***************************************************************************)
(* Properties of the worker's life cycle and of the posting calls.         *)
(***************************************************************************)
\* the worker thread exists: run() was started and was not joined yet
ThreadExists == tPc # "none"

\* C14 (SpecLifecycle): start() on a running worker and stop() on a stopped
\* worker change nothing, and whenever no start()/stop() call is in progress
\* the worker thread exists exactly when running is true (inside its loop,
\* never a second thread, never std::terminate), and no thread exists when
\* running is false.
C14_StartStopIdempotent ==
    /\ [](~crashed)
    /\ [](callPc = "idle" =>
            /\ running <=> ThreadExists
            /\ running <=> joinable
            /\ running => tPc \notin {"shutdown", "done"})
    /\ [][ (nLife' = nLife + 1 /\ ((lifeOp' = "start" /\ running)
                                      \/ (lifeOp' = "stop" /\ ~running))) =>
               UNCHANGED <<running, joinable, tPc, pmInitialised, crashed, callPc,
                           lockvars, chanvars>>
         ]_vars

\* start, start, stop, stop: the second stop found the worker stopped and
\* joined
C14_Witness ==
    /\ nLife = 4
    /\ lifeOp = "stop" /\ lifeEarly
    /\ iterAfterStop = 1
    /\ ~ThreadExists
    /\ ~running

\* C15 (SpecLifecycleFair): after stop() on a running worker the loop
\* completes at most one further iteration, run() shuts the renderer down
\* before it returns, stop() returns only once run() has returned, and with
\* every thread scheduled fairly stop() always returns.
C15_StopJoinsAfterOneIteration ==
    /\ [](iterAfterStop <= 1)
    /\ [](tPc = "done" => ~pmInitialised)
    /\ [][ (callPc = "join" /\ callPc' = "idle") => (tPc = "done" /\ tPc' = "none") ]_vars
    /\ (callPc = "join" ~> callPc = "idle")

\* stop() returned after the worker finished the iteration it was in
C15_Witness ==
    /\ lifeOp = "stop" /\ ~lifeEarly
    /\ callPc = "idle"
    /\ iterAfterStop = 1
    /\ ~ThreadExists
    /\ ~pmInitialised
    /\ nLife = 2

\* C16 (SpecLifecycle): postParameterChange, postLoadPreset and
\* postAudioBlockInterleaved hold no lock and never wait: in every state in
\* which the client is inside one of them its next step can be taken, and the
\* call is over after at most numFrames + 1 steps, whatever the worker does
\* and whether or not the channel is full.
C16_PostsNeverBlock ==
    clOp \in PostOps =>
        /\ latestLock # "client" /\ backBufferLock # "client"
        /\ clPc # "idle" => ENABLED ClientContinue
        /\ clSteps <= MaxFrames + 1

\* a post was rejected by a full channel and returned while the worker held
\* backBufferLock
C16_Witness ==
    /\ clOp = "postParameterChange"
    /\ clPc = "idle"
    /\ ~clRet
    /\ pcLen = Usable
    /\ backBufferLock = "worker"

(***************************************************************************)
(* Properties of the parameter change channel.                             *)
(***************************************************************************)
\* C17 (SpecParamPosters): the worker applies the accepted parameter changes
\* in the order they were posted: what it has applied is a prefix of what was
\* accepted, and when a drain has ended every render parameter holds the value
\* of the last accepted change for its id.
C17_AppliedInPostOrder ==
    /\ IsPrefix(SubSeq(popped, 1, nApplied), accepted)
    /\ Drained =>
          \A id \in ParamIds : live[id] = LastValueFor(accepted, id, ParamDefault(id))

\* C18 (SpecParams): the sequence numbers of the changes the worker pops from
\* paramChanges are strictly increasing.
C18_SequenceIncreasing ==
    \A i, j \in 1..Len(popped) :
        i < j => ParamChangeOf(popped[i]).sequence < ParamChangeOf(popped[j]).sequence

\* s is strictly increasing in the sequence numbers of its items
SeqIncreasing(s) == \A i, j \in 1..Len(s) : i < j => s[i].sequence < s[j].sequence

\* C19 (SpecBridge): drainOnMessageThread pops the accepted changes in post
\* order, each once, and calls the message listener and then the
\* visualization listener with a popped change before it pops the next one;
\* a listener that is not set is never called; when a drain has emptied the
\* relay every listener has seen every accepted change; and the sequence
\* numbers a listener sees are strictly increasing, also across a rejected
\* post.
C19_BridgeDeliversInOrder ==
    /\ brAccepted = brPopped \o brQueue
    /\ \A l \in Listeners \ brListeners : brDelivered[l] = <<>>
    /\ "message" \in brListeners =>
           brDelivered["message"] =
               SubSeq(brPopped, 1, Len(brPopped) - (IF brPc = "message" THEN 1 ELSE 0))
    /\ "viz" \in brListeners =>
           brDelivered["viz"] =
               SubSeq(brPopped, 1,
                      Len(brPopped) - (IF brPc \in {"message", "viz"} THEN 1 ELSE 0))
    /\ (brPc = "idle" /\ brQueue = <<>>) =>
           \A l \in brListeners : brDelivered[l] = brAccepted
    /\ \A l \in Listeners : SeqIncreasing(brDelivered[l])

\* both listeners are set, a post was rejected by the full relay, and after the
\* drains both listeners have seen all accepted changes, with a gap in the
\* sequence numbers where the rejected post was
C19_Witness ==
    /\ brListeners = Listeners
    /\ brPc = "idle" /\ brQueue = <<>>
    /\ Len(brAccepted) = nextSeq - 1
    /\ brDelivered["viz"] = brAccepted
    /\ \E i \in 1..(Len(brAccepted) - 1) :
           brAccepted[i + 1].sequence = brAccepted[i].sequence + 2

\* C20: one call of applyPendingPresetLoads pops every pending request
\* (the loop ends on an empty queue); whenever the worker is past the drain
\* the one path it acts on is the last non-empty path that drain popped,
\* and it differs from the last applied preset; the worker's active preset,
\* its counters and lastAppliedPreset change only while it acts on that
\* path, each counter by one; and a drain whose last non-empty path equals
\* the last applied preset returns at once, leaving the active preset, the
\* cache map (hence every refCount), the hit and miss counters and
\* lastAppliedPreset as they were.
Acting(w) == wPc[w] \notin {"idle", "drain"}
C20_CoalesceAndDedup ==
    /\ [](\A w \in Workers :
            Acting(w) => /\ pendingPath[w] = LastNonEmpty(drained[w])
                         /\ pendingPath[w] # NoPath
                         /\ pendingPath[w] # lastAppliedPreset[w])
    /\ [][\A w \in Workers :
            /\ (wPc[w] = "drain" /\ wPc'[w] # "drain") => requests[w] = <<>>
            /\ (wPc[w] = "drain" /\ wPc'[w] # "drain"
                    /\ LastNonEmpty(drained[w]) = lastAppliedPreset[w])
                  => /\ wPc'[w] = "idle"
                     /\ UNCHANGED <<map, pmName, pmPalette, cacheHits, cacheMisses,
                                    lastAppliedPreset>>
            /\ (wPc[w] = "drain" /\ wPc'[w] = "idle")
                  => LastNonEmpty(drained[w]) \in {NoPath, lastAppliedPreset[w]}
            /\ (\/ pmName'[w] # pmName[w] \/ pmPalette'[w] # pmPalette[w]
                \/ cacheHits'[w] # cacheHits[w] \/ cacheMisses'[w] # cacheMisses[w]
                \/ lastAppliedPreset'[w] # lastAppliedPreset[w])
                  => /\ Acting(w)
                     /\ cacheHits'[w] + cacheMisses'[w]
                            <= cacheHits[w] + cacheMisses[w] + 1
                     /\ lastAppliedPreset'[w] \in
                            {lastAppliedPreset[w], LastNonEmpty(drained[w])}
          ]_vars

\* C20 witness: a drain of at least two requests, one of them a different
\* path, ended at the de-dup return because its last non-empty path was
\* the preset already applied
C20_Witness ==
    \E w \in Workers :
        /\ wPc[w] = "idle"
        /\ dedup[w]
        /\ Len(drained[w]) >= 2
        /\ LastNonEmpty(drained[w]) = lastAppliedPreset[w]
        /\ \E i \in 1..Len(drained[w]) : drained[w][i] \notin {NoPath, lastAppliedPreset[w]}

\* C21: when a worker comes to load a path whose file is missing or is not
\* a .milk file, the call returns there: its currentPresetName, its
\* paletteIndex, its lastAppliedPreset and the cache map (hence every
\* refCount) stay as they were.
C21_InvalidSourceKeepsPreset ==
    [][\A w \in Workers :
          (wPc[w] = "validate" /\ wPc'[w] # "validate"
              /\ ~LoadPresetOk(files, pendingPath[w]))
            => /\ wPc'[w] = "idle"
               /\ UNCHANGED <<pmName, pmPalette, lastAppliedPreset, map>>
      ]_vars

\* a snapshot carries a raised beat flag
BeatRaised(snap) == "beatDetected" \in DOMAIN snap /\ snap.beatDetected
\* the energy of window r exceeds 1.3 times the running average
ExceedsAverage(r) == r.snap.shortTimeEnergy * energyHistorySize * 10 > r.average * 13

\* C22: the snapshot of a window has beatDetected raised exactly when the
\* window's energy exceeds 1.3 times the running average and the cooldown
\* is zero; after a trigger the cooldown is positive, otherwise it has gone
\* one step toward zero; and of the windows with energies 0.01, 0.02, 0.5
\* at sample positions 0, 1024, 2048 only the third has the flag raised.
C22_BeatOnThresholdAndCooldown ==
    /\ \A i \in 1..Len(produced) :
          BeatRaised(produced[i].snap)
              <=> (ExceedsAverage(produced[i]) /\ produced[i].cooldown = 0)
    /\ \A i \in 1..(Len(produced) - 1) :
          IF ExceedsAverage(produced[i]) /\ produced[i].cooldown = 0
          THEN produced[i + 1].cooldown > 0
          ELSE produced[i + 1].cooldown
                  = IF produced[i].cooldown > 0 THEN produced[i].cooldown - 1 ELSE 0
    /\ (/\ Len(produced) = 3
        /\ [i \in 1..3 |-> produced[i].snap.shortTimeEnergy] = <<1, 2, 50>>
        /\ [i \in 1..3 |-> produced[i].snap.samplePosition] = <<0, 1024, 2048>>)
          => [i \in 1..3 |-> BeatRaised(produced[i].snap)] = <<FALSE, FALSE, TRUE>>

\* window r spikes to at least twice the rolling average of the windows
\* before it, which were not silent
SpikeAfterQuietRun(r) ==
    /\ r.averageBefore > 0
    /\ r.snap.shortTimeEnergy * energyHistorySize >= 2 * r.averageBefore

\* C23: no two snapshots fewer than 10 windows apart both have beatDetected
\* raised, and a window that spikes to twice the rolling average while the
\* cooldown is zero has it raised.
C23_BeatDebounced ==
    /\ \A i, j \in 1..Len(produced) :
          (i < j /\ j - i < 10)
              => ~(BeatRaised(produced[i].snap) /\ BeatRaised(produced[j].snap))
    /\ \A i \in 1..Len(produced) :
          (SpikeAfterQuietRun(produced[i]) /\ produced[i].cooldown = 0)
              => BeatRaised(produced[i].snap)

\* C24: a getStateInformation call that follows a setStateInformation call
\* writes the presetPath and the playlistFolderPath of the state that call
\* was given.
C24_StateRoundTrip ==
    saved.restoredFrom # NoState
        => /\ saved.presetPath = saved.restoredFrom.presetPath
           /\ saved.playlistFolderPath = saved.restoredFrom.playlistFolderPath

\* C25: on a channel of 4 slots, after 3 successful pushes, 2 successful
\* pops and 1 further successful push, the next tryPush returns false;
\* the pops that follow return exactly 2 items, and getNumAvailable() is
\* then 0.
C25_TestBoundary ==
    /\ CapacityPow2 = 4
    /\ nPush + nPop = Len(TestCalls) - 1
          => (Len(accepted) = 4 /\ Len(popped) = 2)
    /\ nPush + nPop = Len(TestCalls)
          => (lastCall = "tryPush" /\ lastRet = FALSE)
    /\ TestDrained => (Len(popped) = 2 + 2 /\ getNumAvailable = 0)

\* the snapshots tryPush accepted on the analysis channel, oldest first
AcceptedRecords == SelectSeq(produced, LAMBDA r : r.accepted)
NumAccepted == Len(AcceptedRecords)
\* the snapshots among the accepted ones that the worker has popped are the
\* oldest ones, in order
PoppedArePrefix ==
    /\ Len(snapPopped) <= NumAccepted
    /\ \A k \in 1..Len(snapPopped) : snapPopped[k] = AcceptedRecords[k].snap

LastPopped(n) == snapPopped[n]

FpsTooLow ==
    /\ aqEval.fpsEma > 0
    /\ aqEval.fpsEma < fpsLow
    /\ 100 * aqEval.fpsEma < 85 * aqTargetFps
FpsGood == aqEval.fpsEma >= fpsHigh /\ 100 * aqEval.fpsEma >= 95 * aqTargetFps
DownCondition == FpsTooLow \/ aqEval.cpuPct >= aqCpuHigh
UpCondition == FpsGood /\ aqEval.cpuPct <= aqCpuRelax

\* C27: an evaluate in Auto mode returns the scale stored before lowered by
\* 0.1 but not below 0.5 when fps is positive and below both the low
\* threshold and 0.85 of the target, or cpu is at least the high threshold;
\* otherwise that scale raised by 0.1 but not above 1.0 when fps is at least
\* both the high threshold and 0.95 of the target and cpu is at most the
\* relax threshold; otherwise that scale.  Down wins when both hold, and an
\* fps of 0 with cpu below the high threshold never lowers the scale.
C27_AutoStepRule ==
    (aqOp = "evaluate" /\ aqEval.mode = Auto) =>
        /\ DownCondition =>
               aqEval.suggestedScale = Max(ScaleFloor, aqEval.before - ScaleStep)
        /\ (~DownCondition /\ UpCondition) =>
               aqEval.suggestedScale = Min(ScaleCeil, aqEval.before + ScaleStep)
        /\ (~DownCondition /\ ~UpCondition) => aqEval.suggestedScale = aqEval.before
        /\ (aqEval.fpsEma = 0 /\ aqEval.cpuPct < aqCpuHigh) =>
               aqEval.suggestedScale >= aqEval.before
        /\ currentScale = aqEval.suggestedScale

\* C27 witness: with the cpu thresholds set so that both conditions can hold,
\* an Auto evaluate met both of them and stepped down from 1.0 to 0.9.
C27_Witness ==
    /\ aqOp = "evaluate"
    /\ aqEval.mode = Auto
    /\ DownCondition /\ UpCondition
    /\ aqEval.before = ScaleCeil
    /\ aqEval.suggestedScale = ScaleCeil - ScaleStep

\* worker w holds a hit whose timestamp is not the one of its file
StaleHit(w) ==
    /\ wHit[w]
    /\ LastModificationTime(files, pendingPath[w]) # wMeta[w].lastModified
\* worker w holds a hit whose timestamp is the one of its file
FreshHit(w) ==
    /\ wHit[w]
    /\ LastModificationTime(files, pendingPath[w]) = wMeta[w].lastModified

\* C28: a worker whose lookup hit an entry with a timestamp other than the
\* file's reloads the preset from the file; its upsert then replaces the
\* entry's name, paletteIndex and timestamp (the one read from the file),
\* counts a miss, and leaves the entry's refCount as it was just before; a
\* hit with the file's timestamp loads nothing, counts a hit and leaves the
\* cache as it is.
C28_StaleEntryRecomputed ==
    [][\A w \in Workers :
         LET path == pendingPath[w]
             nm == FileNameWithoutExtension(path)
         IN /\ (wPc[w] = "validate" /\ wPc'[w] # "validate" /\ StaleHit(w)
                   /\ LoadPresetOk(files, path))
                  => (wPc'[w] = "upsert" /\ pmName'[w] = nm
                      /\ pmPalette'[w] = LoadPresetPalette(nm))
            /\ (wPc[w] = "upsert" /\ wPc'[w] # "upsert" /\ wHit[w] /\ path \in DOMAIN map)
                  => (/\ map'[path].name = nm
                      /\ map'[path].paletteIndex = LoadPresetPalette(nm)
                      /\ map'[path].lastModified = wMeta[w].lastModified
                      /\ cacheMisses'[w] = cacheMisses[w] + 1
                      /\ map'[path].refCount = map[path].refCount)
            /\ (wPc[w] = "validate" /\ wPc'[w] # "validate" /\ FreshHit(w))
                  => (/\ wPc'[w] = "addRef"
                      /\ cacheHits'[w] = cacheHits[w] + 1
                      /\ UNCHANGED <<cacheMisses, map>>)
    ]_vars

\* a pass through the frame section
FramePass == dPc = "frame" /\ dPc' = "tryPop"

\* C30: a pass of the worker's loop renders at most one frame, and only when
\* the clock it read is at or past nextFrameTime; a render moves nextFrameTime
\* on by one period of the target FPS read in that pass, unless the clock is
\* then more than 5 periods past it, in which case nextFrameTime becomes the
\* clock plus one period.  So after every render the clock is at most 5
\* periods past nextFrameTime (the backlog left to render is bounded, and
\* after a resynchronisation no frame is due before a period has passed),
\* for every target FPS, which stays within [1, 240], also when setTargetFps
\* is called between passes.
C30_FramePacing ==
    /\ [][framesRendered' # framesRendered => FramePass]_vars
    /\ [][FramePass =>
            LET period == FrameDur(vizTargetFps)
                stepped == nextFrameTimeMs + period
            IN /\ framesRendered' \in {framesRendered, framesRendered + 1}
               /\ framesRendered' = framesRendered + 1 =>
                      /\ nowMs' >= nextFrameTimeMs
                      /\ nowMs' - stepped <= LateFactor * period
                             => nextFrameTimeMs' = stepped
                      /\ nowMs' - stepped > LateFactor * period
                             => nextFrameTimeMs' = nowMs' + period
               /\ framesRendered' = framesRendered => nextFrameTimeMs' = nextFrameTimeMs
       ]_vars
    /\ [](didRender => nowMs - nextFrameTimeMs <= LateFactor * frameDurMs)
    /\ [](vizTargetFps \in 1..240)

\* C30 witness: the target FPS was changed, several frames were rendered, and
\* the last pass found the worker more than 5 periods late and set
\* nextFrameTime one period after the clock.
C30_Witness ==
    /\ didRender
    /\ framesRendered >= 3
    /\ vizTargetFps # DefaultTargetFps
    /\ frameDurMs = FrameDur(vizTargetFps)
    /\ nextFrameTimeMs = nowMs + frameDurMs

\* C31: when an evaluation returns a scale that differs from the current
\* resolution scale by more than 0.01, the buffer is resized to
\* max(2, floor(width * scale)) by max(2, floor(height * scale)), and every
\* frame rendered from then until the next evaluation is drawn into a buffer
\* of that size.
C31_FramesUseScaledBuffer ==
    resizedFor # 0 =>
        LET scaled == [width |-> Max(2, (surface.width * resizedFor) \div 100),
                       height |-> Max(2, (surface.height * resizedFor) \div 100)]
        IN IF drawnInto = NoImage THEN backBuffer = scaled ELSE drawnInto = scaled

\* C32: for any split of the input into processBlock calls the producer emits
\* one snapshot per 1024 accumulated samples, the k-th snapshot since
\* prepareToPlay (k = 0, 1, 2, ...) carries samplePosition = k * 1024, the
\* start of its window, and samplePosition is non-decreasing along the channel.
C32_SamplePositionIsWindowStart ==
    /\ Len(produced) = runningSamplePos \div fftSize
    /\ \A k \in 1..Len(produced) :
           produced[k].snap.samplePosition = (k - 1) * fftSize
    /\ \A k \in 1..(Len(aQueue) - 1) :
           aQueue[k].samplePosition <= aQueue[k + 1].samplePosition

\* the sum of the entries of energyHistory
RECURSIVE SumTo(_, _)
SumTo(h, i) == IF i < 0 THEN 0 ELSE h[i] + SumTo(h, i - 1)

\* C33: after every completed analysis window, under any sequence of
\* prepareToPlay and processBlock calls, energyAverage is the sum of the 43
\* entries of energyHistory divided by 43, and it is never negative.
\* (energyAverage holds the average times 43.)
C33_AverageIsHistoryMean ==
    produced # <<>> =>
        /\ energyAverage = SumTo(energyHistory, energyHistorySize - 1)
        /\ energyAverage >= 0

\* the records of the windows the given processBlock step completed
NewRecords == SubSeq(produced', Len(produced) + 1, Len(produced'))
\* the snapshots of the records of a sequence
RECURSIVE SnapsOf(_)
SnapsOf(rs) == IF rs = <<>> THEN <<>> ELSE <<Head(rs).snap>> \o SnapsOf(Tail(rs))

\* C34: a window completed while the analysis channel is full has its
\* snapshot dropped, with no retry, and still updates the energy history, the
\* average and the cooldown; a window completed when the worker has popped
\* at least one item since is delivered again; a dropped snapshot is never
\* delivered later: what the worker popped and what the channel holds are
\* together the accepted snapshots, in order.
C34_DropWhenFullAndResume ==
    /\ [](snapPopped \o aQueue = SnapsOf(AcceptedRecords))
    /\ [][nBlocks' # nBlocks =>
            LET n == Len(NewRecords)
                free == Usable - Len(aQueue)
            IN /\ \A i \in 1..n : NewRecords[i].accepted = (i <= free)
               /\ aQueue' = aQueue \o SnapsOf(SelectSeq(NewRecords, LAMBDA r : r.accepted))
               /\ energyIndex' = (energyIndex + n) % energyHistorySize
               /\ \A i \in 1..n :
                      energyHistory'[(energyIndex + i - 1) % energyHistorySize]
                          = NewRecords[i].snap.shortTimeEnergy
               /\ energyAverage' = SumTo(energyHistory', energyHistorySize - 1)
               /\ beatCooldown' = Max(0, beatCooldown - n)]_vars

\* C34 witness: a snapshot was dropped by the full channel, the worker has
\* popped since, and a later snapshot was accepted.
C34_Witness ==
    \E i, j \in 1..Len(produced) :
        /\ i < j
        /\ ~produced[i].accepted
        /\ produced[j].accepted
        /\ snapPopped # <<>>
        /\ energyHistory[(j - 1) % energyHistorySize] = produced[j].snap.shortTimeEnergy

\* the last n of the first k frames posted, as samples
LastPosted(k, n) == SubSeq(pcmPosted, 2 * (k - n) + 1, 2 * k)

\* C35: with no concurrent writer, after k frames were posted,
\* getLatestPcmWindow(n) for 1 <= n <= min(k, ring capacity) returns the last
\* n posted frames in posting order, left and right interleaved, also after
\* the write position has wrapped; n <= 0 is treated as the default window.
C35_LatestWindowIsLastFrames ==
    /\ [](pcmGet.called =>
            LET n == pcmGet.desiredFrames
                k == pcmGet.posted
            IN /\ (1 <= n /\ n <= Min(k, PcmCapacity)) =>
                      (pcmGet.out = LastPosted(k, n) /\ pcmGet.ret)
               /\ (n <= 0 /\ DefaultWindow <= Min(k, PcmCapacity)) =>
                      (pcmGet.out = LastPosted(k, DefaultWindow) /\ pcmGet.ret))
    /\ [][pcmGet' # pcmGet /\ pcmGet'.desiredFrames <= 0 =>
            pcmGet'.out = copyLatest(DefaultWindow)]_vars

\* C35 witness: more frames were posted than the ring holds, and the window
\* last returned spans the end of the ring.
C35_Witness ==
    /\ pcmGet.called
    /\ pcmGet.desiredFrames = 3
    /\ pcmGet.posted = PcmCapacity + 1
    /\ pcmGet.out = LastPosted(pcmGet.posted, 3)
    /\ pcmGet.out[1] # pcmGet.out[3]

\* the worker is writing a field that another thread is reading or writing
Racing ==
    \E a \in AccessOf(wAccess), b \in AccessOf(cAccess) : a.field = b.field /\ a.write

\* C36: the image buffer, the latest snapshot, the surface size and the
\* current preset name are accessed only under their lock: in no reachable
\* state does the worker write one of them while another thread reads or
\* writes it in getFrameSnapshot, getLatestAnalysisSnapshot, setSurfaceSize or
\* getCurrentPresetName.
C36_NoUnlockedSharedAccess == ~Racing

\* C37: under every interleaving of prepareToPlay's analysisQueue.clear()
\* with the worker's tryPop, tail never advances past head, and the worker
\* never pops a snapshot a second time or a slot that was never pushed.
C37_ClearNextToPopIsSafe ==
    /\ aTail <= aHead
    /\ \A i, j \in 1..Len(aPopped) : i # j => aPopped[i] # aPopped[j]
    /\ \A i \in 1..Len(aPopped) : aPopped[i] \in 1..aHead

\* C38: under any interleaving of start() and stop() made by two threads on
\* one VisualizationThread, at most one run() loop is alive at any time,
\* worker is never assigned to while it is joinable, and every run() loop
\* that was alive when a stop() took effect leaves the loop.
C38_TwoCallersLifecycle ==
    /\ [](Cardinality(Alive) <= 1)
    /\ [][\A c \in Callers : (twPc[c] = "assign" /\ twPc'[c] = "idle") => ~joinable]_vars
    /\ \A i \in ThreadIds : (i \in stopAsked) ~> (runPc[i] = "done")

\* the number of items the channel holds, counted from the calls
Held == Len(accepted) - Len(popped)

\* C39 (SpecWrap): with head and tail wrapping modulo the counter range and
\* a power-of-two capacity N, the number of held items equals
\* (head - tail) mod N, lies in 0..N-1 and equals getNumAvailable(); and,
\* wherever the counters stand, tryPush is refused exactly when N-1 items
\* are held and otherwise appends its item, and tryPop is refused exactly
\* when nothing is held and otherwise returns the oldest held item.
C39_WrapAround ==
    /\ [](/\ Held = (head - tail) % CapacityPow2
          /\ Held \in 0..(CapacityPow2 - 1)
          /\ Held = getNumAvailable
          /\ Contents = SubSeq(accepted, Len(popped) + 1, Len(accepted)))
    /\ [][/\ nPush' = nPush + 1 =>
               /\ lastRet' = (Held < Usable)
               /\ Len(accepted') = Len(accepted) + (IF Held < Usable THEN 1 ELSE 0)
               /\ popped' = popped
          /\ nPop' = nPop + 1 =>
               /\ lastRet' = (Held > 0)
               /\ accepted' = accepted
               /\ popped' = IF Held > 0
                             THEN Append(popped, accepted[Len(popped) + 1])
                             ELSE popped]_vars

\* both counters have wrapped (the channel was taken up two items before
\* the wrap and more than two went through), the channel is full and the
\* last push was refused
C39_Witness ==
    /\ Len(popped) > 2
    /\ tail = Len(popped) - 2
    /\ head = Len(accepted) - 2
    /\ Held = Usable
    /\ lastCall = "tryPush" /\ lastRet = FALSE

\* C40 (SpecHash): for every 32-bit signed hash value of a preset name,
\* the minimum -2^31 included, derivePaletteIndex and loadPreset compute
\* the same palette index, and that index lies in 0..4.
C40_PaletteIndexInRange ==
    palCalled => (palCache = palViz /\ palCache \in 0..(palettes - 1))
====
